---- MODULE Spec2Model ----
(***************************************************************************)
(* gemini-cli: a command-line client that stores an API key, builds one    *)
(* generateContent request from flags and positional parts, sends it, and  *)
(* reshapes the model list.                                                *)
(*                                                                         *)
(* A Go string is modelled as a sequence of one-character strings, so that *)
(* prefix tests, splitting, trimming and escaping are computed character   *)
(* by character as the code computes them.  A nil pointer / absent         *)
(* optional field is the empty sequence <<>>, a set one is <<v>>.          *)
(* Floating-point flags are held in tenths (7 is 0.7, -10 is -1.0).        *)
(***************************************************************************)
EXTENDS Integers, Sequences, FiniteSets, TLC

VARIABLES
  configFile,      \* the per-user config.json: [exists, data]
  pc,              \* position of the running process in main / handlers
  inv,             \* os.Args of the running process, parsed flags included
  parsedParts,     \* main.go: parsedParts
  currentApiKey,   \* main.go: currentApiKey
  requestPayload,  \* handleGenerateContent: requestPayload (<<>> is nil)
  netLog,          \* HTTP round trips made by the running process, in order
  stdout,          \* what the running process printed on standard output
  stderr,          \* the errors the running process printed
  exitCode,        \* -1 while running, else the process exit code
  lastSaved,       \* history: <<key>> of the latest saveAPIKey that returned nil
  fileAtStart,     \* history: config.json as the running process found it
  callArgs,        \* arguments of a function called on its own
  callRet          \* what that call returned

vars ==
  <<configFile, pc, inv, parsedParts, currentApiKey, requestPayload,
    netLog, stdout, stderr, exitCode, lastSaved, fileAtStart, callArgs, callRet>>

progVars ==
  <<configFile, pc, inv, parsedParts, currentApiKey, requestPayload,
    netLog, stdout, stderr, exitCode, lastSaved, fileAtStart>>

-----------------------------------------------------------------------------
(* Bounds of the model. *)

MaxArgs == 4

MaxProgArgs == 4

MaxFlaggedArgs == 2

MaxKeyLen == 2

MaxHeaderTokens == 4

-----------------------------------------------------------------------------
(* Go's strings package, on sequences of characters. *)

Nil ==
  <<>>

Some(v) ==
  <<v>>

HasPrefix(s, p) ==
  Len(s) >= Len(p) /\ SubSeq(s, 1, Len(p)) = p

TrimPrefix(s, p) ==
  IF HasPrefix(s, p) THEN SubSeq(s, Len(p) + 1, Len(s)) ELSE s

\* strings.Index for a one-character separator: the first position, 0 if none
IndexOf(s, c) ==
  IF \E i \in 1..Len(s) : s[i] = c
  THEN CHOOSE i \in 1..Len(s) : s[i] = c /\ \A j \in 1..(i - 1) : s[j] # c
  ELSE 0

\* strings.SplitN(s, c, 2)
SplitN2(s, c) ==
  LET i == IndexOf(s, c)
  IN  IF i = 0 THEN <<s>>
      ELSE <<SubSeq(s, 1, i - 1), SubSeq(s, i + 1, Len(s))>>

RECURSIVE Split(_, _)
\* strings.Split(s, c): Split("", c) is one empty string
Split(s, c) ==
  LET i == IndexOf(s, c)
  IN  IF i = 0 THEN <<s>>
      ELSE <<SubSeq(s, 1, i - 1)>> \o Split(SubSeq(s, i + 1, Len(s)), c)

IsSpace(c) ==
  c \in {" ", "\t", "\n"}

RECURSIVE TrimLeft(_)
TrimLeft(s) ==
  IF s # <<>> /\ IsSpace(Head(s)) THEN TrimLeft(Tail(s)) ELSE s

RECURSIVE TrimRight(_)
TrimRight(s) ==
  IF s # <<>> /\ IsSpace(s[Len(s)]) THEN TrimRight(SubSeq(s, 1, Len(s) - 1)) ELSE s

\* strings.TrimSpace
TrimSpace(s) ==
  TrimRight(TrimLeft(s))

\* all sequences over S of length at most n
SeqsUpTo(S, n) ==
  UNION {[1..k -> S] : k \in 0..n}

RECURSIVE Flatten(_)
\* the concatenation of a sequence of strings
Flatten(ss) ==
  IF ss = <<>> THEN <<>> ELSE Head(ss) \o Flatten(Tail(ss))

-----------------------------------------------------------------------------
(* Errors: a Go error is [kind, arg]; NoErr is nil. *)

NoErr ==
  [kind |-> "nil", arg |-> <<>>]

Err(k, a) ==
  [kind |-> k, arg |-> a]

-----------------------------------------------------------------------------
(* main.go: parseInputParts *)

sText ==
  <<"t", "e", "x", "t">>

sFile ==
  <<"f", "i", "l", "e">>

RECURSIVE parseLoop(_, _, _)
\* the for loop of parseInputParts, i is the 1-based index of the type token
parseLoop(args, i, parts) ==
  IF i > Len(args) THEN [parts |-> parts, err |-> NoErr]
  ELSE LET partType == args[i]
           partValue == args[i + 1]
       IN  IF partType # sText /\ partType # sFile
           THEN [parts |-> <<>>, err |-> Err("invalid part type", partType)]
           ELSE parseLoop(args, i + 2,
                          Append(parts, [Type |-> partType, Value |-> partValue]))

RECURSIVE parseLoopFirstOnly(_, _, _)
parseLoopFirstOnly(args, i, parts) ==
  IF i > Len(args) THEN [parts |-> parts, err |-> NoErr]
  ELSE LET partType == args[i]
           partValue == args[i + 1]
       IN  IF i = 1 /\ partType # sText /\ partType # sFile
           THEN [parts |-> <<>>, err |-> Err("invalid part type", partType)]
           ELSE parseLoopFirstOnly(args, i + 2,
                          Append(parts, [Type |-> partType, Value |-> partValue]))

\* mutant: the type token is validated for the first pair only
parseInputParts_FirstOnly(args) ==
  IF Len(args) % 2 # 0
  THEN [parts |-> <<>>, err |-> Err("input parts must be in pairs", <<>>)]
  ELSE parseLoopFirstOnly(args, 1, <<>>)

parseInputParts(args) ==
  IF Len(args) % 2 # 0
  THEN [parts |-> <<>>, err |-> Err("input parts must be in pairs", <<>>)]
  ELSE parseLoop(args, 1, <<>>)

-----------------------------------------------------------------------------
(* config: the key store.  encoding/json is modelled on a small alphabet:  *)
(* a letter, the quote, the backslash, an HTML-sensitive character, a byte *)
(* that is not valid UTF-8, and the replacement rune U+FFFD.               *)

cQuote ==
  "\""

cBackslash ==
  "\\"

cLess ==
  "<"

\* a byte such as 0xFF that is not valid UTF-8
cBadByte ==
  "0xFF"

\* the rune U+FFFD
cReplacement ==
  "U+FFFD"

\* encoding/json's string escape, with HTML escaping as json.Marshal has it
jsonEscapeChar(c) ==
  CASE c = cQuote -> <<cBackslash, cQuote>>
    [] c = cBackslash -> <<cBackslash, cBackslash>>
    [] c = cLess -> <<cBackslash, "u003c">>
    [] c = cBadByte -> <<cBackslash, "ufffd">>
    [] OTHER -> <<c>>

RECURSIVE jsonEscape(_)
jsonEscape(s) ==
  IF s = <<>> THEN <<>> ELSE jsonEscapeChar(Head(s)) \o jsonEscape(Tail(s))

RECURSIVE jsonUnescape(_)
\* the decoder's unquote: [ok, s]
jsonUnescape(b) ==
  IF b = <<>> THEN [ok |-> TRUE, s |-> <<>>]
  ELSE IF Head(b) = cQuote THEN [ok |-> FALSE, s |-> <<>>]
  ELSE IF Head(b) = cBackslash
    THEN IF Len(b) < 2 \/ b[2] \notin {cQuote, cBackslash, "u003c", "ufffd"}
         THEN [ok |-> FALSE, s |-> <<>>]
         ELSE LET c == CASE b[2] = cQuote -> cQuote
                         [] b[2] = cBackslash -> cBackslash
                         [] b[2] = "u003c" -> cLess
                         [] OTHER -> cReplacement
                  rest == jsonUnescape(SubSeq(b, 3, Len(b)))
              IN  [ok |-> rest.ok, s |-> IF rest.ok THEN <<c>> \o rest.s ELSE <<>>]
  ELSE LET c == IF Head(b) = cBadByte THEN cReplacement ELSE Head(b)
           rest == jsonUnescape(Tail(b))
       IN  [ok |-> rest.ok, s |-> IF rest.ok THEN <<c>> \o rest.s ELSE <<>>]

jsonOpen ==
  <<"{", "\"api_key\":", cQuote>>

jsonClose ==
  <<cQuote, "}">>

\* json.MarshalIndent(Config{APIKey: apiKey}), white space left out
jsonMarshalConfig(apiKey) ==
  jsonOpen \o jsonEscape(apiKey) \o jsonClose

\* json.Unmarshal(data, &config): [err, APIKey]; an object without the
\* api_key field leaves APIKey empty, anything else that is not the object
\* MarshalIndent writes is a syntax error
jsonUnmarshalConfig(data) ==
  IF data = <<"{", "}">> THEN [ok |-> TRUE, APIKey |-> <<>>]
  ELSE IF /\ Len(data) >= Len(jsonOpen) + Len(jsonClose)
          /\ SubSeq(data, 1, Len(jsonOpen)) = jsonOpen
          /\ SubSeq(data, Len(data) - Len(jsonClose) + 1, Len(data)) = jsonClose
    THEN LET u == jsonUnescape(SubSeq(data, Len(jsonOpen) + 1,
                                      Len(data) - Len(jsonClose)))
         IN  [ok |-> u.ok, APIKey |-> u.s]
    ELSE [ok |-> FALSE, APIKey |-> <<>>]

\* The outcomes of the file system calls of one invocation:
\*   dir   "ok", or why getConfigPath fails ("nodir": os.UserConfigDir,
\*         "mkdir": os.MkdirAll)
\*   write "ok", or how os.WriteFile fails: "open" before the file is
\*         touched, "trunc" after it was opened with O_TRUNC and before a
\*         byte was written, "short" with the final byte unwritten
\*   read  whether os.ReadFile of an existing file succeeds
FsOutcomes ==
  [dir : {"ok", "nodir", "mkdir"}, write : {"ok", "open", "trunc", "short"},
   read : BOOLEAN]

FsAllOk ==
  [dir |-> "ok", write |-> "ok", read |-> TRUE]

NoFile ==
  [exists |-> FALSE, data |-> <<>>]

\* config.json as the program may find it when it was never written by it:
\* absent, an object without the key, an empty file, or not JSON
FoundFiles ==
  {NoFile,
   [exists |-> TRUE, data |-> <<"{", "}">>],
   [exists |-> TRUE, data |-> <<>>],
   [exists |-> TRUE, data |-> <<"x">>]}

getConfigPath(fs) ==
  CASE fs.dir = "nodir" -> Err("failed to get user config directory", <<>>)
    [] fs.dir = "mkdir" -> Err("failed to create app config directory", <<>>)
    [] OTHER -> NoErr

\* what a failed os.WriteFile of data leaves of the file
failedWrite(how, data, file) ==
  CASE how = "open" -> file
    [] how = "trunc" -> [exists |-> TRUE, data |-> <<>>]
    [] OTHER -> [exists |-> TRUE, data |-> SubSeq(data, 1, Len(data) - 1)]

\* saveAPIKey: [err, file, out], file being config.json afterwards
saveAPIKey(apiKey, fs, file) ==
  IF getConfigPath(fs) # NoErr
  THEN [err |-> getConfigPath(fs), file |-> file, out |-> <<>>]
  ELSE IF fs.write # "ok"
  THEN [err |-> Err("failed to write config file", <<>>),
        file |-> failedWrite(fs.write, jsonMarshalConfig(apiKey), file),
        out |-> <<>>]
  ELSE [err |-> NoErr,
        file |-> [exists |-> TRUE, data |-> jsonMarshalConfig(apiKey)],
        out |-> <<"API key saved">>]

\* mutant: the existence test is left out
loadAPIKey_NoStat(fs, file) ==
  IF getConfigPath(fs) # NoErr
  THEN [key |-> <<>>, err |-> getConfigPath(fs), reached |-> <<"getConfigPath">>]
  ELSE IF ~file.exists \/ ~fs.read
  THEN [key |-> <<>>, err |-> Err("failed to read config file", <<>>),
        reached |-> <<"getConfigPath", "ReadFile">>]
  ELSE LET config == jsonUnmarshalConfig(file.data)
           steps == <<"getConfigPath", "ReadFile", "Unmarshal">>
       IN  IF ~config.ok
           THEN [key |-> <<>>, err |-> Err("failed to unmarshal config", <<>>),
                 reached |-> steps]
           ELSE IF config.APIKey = <<>>
           THEN [key |-> <<>>, err |-> Err("API key not found in config file", <<>>),
                 reached |-> steps]
           ELSE [key |-> config.APIKey, err |-> NoErr, reached |-> steps]

\* mutant: the key is returned as it stands in the file, escapes undecoded
loadAPIKey_Raw(fs, file) ==
  IF getConfigPath(fs) # NoErr
  THEN [key |-> <<>>, err |-> getConfigPath(fs), reached |-> <<"getConfigPath">>]
  ELSE IF ~file.exists
  THEN [key |-> <<>>, err |-> Err("config file not found", <<>>),
        reached |-> <<"getConfigPath", "Stat">>]
  ELSE IF ~fs.read
  THEN [key |-> <<>>, err |-> Err("failed to read config file", <<>>),
        reached |-> <<"getConfigPath", "Stat", "ReadFile">>]
  ELSE LET config == jsonUnmarshalConfig(file.data)
           raw == SubSeq(file.data, Len(jsonOpen) + 1,
                         Len(file.data) - Len(jsonClose))
           steps == <<"getConfigPath", "Stat", "ReadFile", "Unmarshal">>
       IN  IF ~config.ok
           THEN [key |-> <<>>, err |-> Err("failed to unmarshal config", <<>>),
                 reached |-> steps]
           ELSE IF config.APIKey = <<>>
           THEN [key |-> <<>>, err |-> Err("API key not found in config file", <<>>),
                 reached |-> steps]
           ELSE [key |-> raw, err |-> NoErr, reached |-> steps]

\* loadAPIKey: [key, err, reached], reached being the calls it made
loadAPIKey(fs, file) ==
  IF getConfigPath(fs) # NoErr
  THEN [key |-> <<>>, err |-> getConfigPath(fs), reached |-> <<"getConfigPath">>]
  ELSE IF ~file.exists
  THEN [key |-> <<>>, err |-> Err("config file not found", <<>>),
        reached |-> <<"getConfigPath", "Stat">>]
  ELSE IF ~fs.read
  THEN [key |-> <<>>, err |-> Err("failed to read config file", <<>>),
        reached |-> <<"getConfigPath", "Stat", "ReadFile">>]
  ELSE LET config == jsonUnmarshalConfig(file.data)
           steps == <<"getConfigPath", "Stat", "ReadFile", "Unmarshal">>
       IN  IF ~config.ok
           THEN [key |-> <<>>, err |-> Err("failed to unmarshal config", <<>>),
                 reached |-> steps]
           ELSE IF config.APIKey = <<>>
           THEN [key |-> <<>>, err |-> Err("API key not found in config file", <<>>),
                 reached |-> steps]
           ELSE [key |-> config.APIKey, err |-> NoErr, reached |-> steps]

-----------------------------------------------------------------------------
(* encoding/base64, StdEncoding.  A byte is an integer 0..255; a string    *)
(* that is encoded is turned into bytes by ByteOf.                         *)

encodeStd ==
  <<
    "A", "B", "C", "D", "E", "F", "G", "H", "I", "J", "K", "L", "M", "N", "O", "P",
    "Q", "R", "S", "T", "U", "V", "W", "X", "Y", "Z", "a", "b", "c", "d", "e", "f",
    "g", "h", "i", "j", "k", "l", "m", "n", "o", "p", "q", "r", "s", "t", "u", "v",
    "w", "x", "y", "z", "0", "1", "2", "3", "4", "5", "6", "7", "8", "9", "+", "/">>

\* the byte of a character; "0x89", "0x1A" and "0x00" stand for those bytes
ByteOf(c) ==
  CASE c = "h" -> 104 [] c = "e" -> 101 [] c = "l" -> 108 [] c = "o" -> 111
    [] c = "i" -> 105 [] c = "{" -> 123 [] c = "}" -> 125 [] c = "x" -> 120
    [] c = "P" -> 80 [] c = "N" -> 78 [] c = "G" -> 71 [] c = "\r" -> 13
    [] c = "\n" -> 10 [] c = "0x89" -> 137 [] c = "0x1A" -> 26
    [] OTHER -> 0

Sextet(n, k) ==
  encodeStd[((n \div (64 ^ k)) % 64) + 1]

RECURSIVE EncodeBytes(_)
\* Encoding.Encode: three bytes give four characters, the rest is padded
EncodeBytes(b) ==
  IF Len(b) = 0 THEN <<>>
  ELSE IF Len(b) = 1
    THEN LET n == b[1] * 65536
         IN  <<Sextet(n, 3), Sextet(n, 2), "=", "=">>
  ELSE IF Len(b) = 2
    THEN LET n == b[1] * 65536 + b[2] * 256
         IN  <<Sextet(n, 3), Sextet(n, 2), Sextet(n, 1), "=">>
  ELSE LET n == b[1] * 65536 + b[2] * 256 + b[3]
       IN  <<Sextet(n, 3), Sextet(n, 2), Sextet(n, 1), Sextet(n, 0)>>
             \o EncodeBytes(SubSeq(b, 4, Len(b)))

\* base64.StdEncoding.EncodeToString(data)
EncodeToString(data) ==
  EncodeBytes([i \in 1..Len(data) |-> ByteOf(data[i])])

IsB64Char(c) ==
  \E i \in 1..64 : encodeStd[i] = c

RECURSIVE DropNewlines(_)
DropNewlines(s) ==
  IF s = <<>> THEN <<>>
  ELSE IF Head(s) \in {"\r", "\n"} THEN DropNewlines(Tail(s))
  ELSE <<Head(s)>> \o DropNewlines(Tail(s))

RECURSIVE decodeQuanta(_)
\* Encoding.decodeQuantum over the input without its line breaks: whether
\* every quantum decodes
decodeQuanta(s) ==
  IF s = <<>> THEN TRUE
  ELSE IF Len(s) < 4
    THEN FALSE
  ELSE LET q == SubSeq(s, 1, 4)
           rest == SubSeq(s, 5, Len(s))
       IN  IF \A j \in 1..4 : IsB64Char(q[j]) THEN decodeQuanta(rest)
           ELSE /\ IsB64Char(q[1])
                /\ IsB64Char(q[2])
                /\ \/ q[3] = "=" /\ q[4] = "="
                   \/ IsB64Char(q[3]) /\ q[4] = "="
                /\ rest = <<>>

\* mutant: nothing is validated
DecodeStringOk_Any(s) ==
  TRUE

\* whether base64.StdEncoding.DecodeString(s) returns no error
DecodeStringOk(s) ==
  decodeQuanta(DropNewlines(s))

-----------------------------------------------------------------------------
(* file arguments: parseDataURI *)

LowerOf(c) ==
  CASE c = "B" -> "b" [] c = "A" -> "a" [] c = "S" -> "s" [] c = "E" -> "e"
    [] c = "I" -> "i" [] c = "M" -> "m" [] c = "G" -> "g" [] c = "N" -> "n"
    [] c = "P" -> "p" [] c = "T" -> "t" [] c = "V" -> "v" [] c = "O" -> "o"
    [] c = "D" -> "d" [] c = "R" -> "r" [] c = "X" -> "x"
    [] OTHER -> c

\* strings.ToLower
ToLower(s) ==
  [i \in 1..Len(s) |-> LowerOf(s[i])]

\* strings.Contains
Contains(s, sub) ==
  \E i \in 0..(Len(s) - Len(sub)) : SubSeq(s, i + 1, i + Len(sub)) = sub

sDataColon ==
  <<"d", "a", "t", "a", ":">>

sBase64 ==
  <<"b", "a", "s", "e", "6", "4">>

sTextPlain ==
  <<"t", "e", "x", "t", "/", "p", "l", "a", "i", "n">>

\* parseDataURI: [mimeType, data, err]
parseDataURI(dataURI) ==
  LET parts == SplitN2(dataURI, ",")
  IN  IF Len(parts) # 2
      THEN [mimeType |-> <<>>, data |-> <<>>, err |-> Err("missing comma separator", <<>>)]
      ELSE LET header == parts[1]
               base64Data == parts[2]
           IN  IF ~HasPrefix(header, sDataColon)
               THEN [mimeType |-> <<>>, data |-> <<>>,
                     err |-> Err("must start with 'data:'", <<>>)]
               ELSE LET headerContent == TrimPrefix(header, sDataColon)
                        encodingParts == SplitN2(headerContent, ";")
                        mimeType == IF encodingParts[1] = <<>> THEN sTextPlain
                                    ELSE encodingParts[1]
                        isBase64Encoded == /\ Len(encodingParts) > 1
                                           /\ ToLower(encodingParts[2]) = sBase64
                    IN  IF ~isBase64Encoded
                        THEN [mimeType |-> <<>>, data |-> <<>>,
                              err |-> Err("not specified as base64 encoded", <<>>)]
                        ELSE IF ~DecodeStringOk(base64Data)
                        THEN [mimeType |-> <<>>, data |-> <<>>,
                              err |-> Err("invalid base64 data", <<>>)]
                        ELSE [mimeType |-> mimeType, data |-> base64Data, err |-> NoErr]

-----------------------------------------------------------------------------
(* file arguments: the local files and the remote servers of the model.    *)

sPngPath ==
  <<"/", "a", ".", "p", "n", "g">>

sSchemaPath ==
  <<"/", "s", ".", "j", "s", "o", "n">>

sEmptyPath ==
  <<"/", "e", ".", "j", "s", "o", "n">>

sNoExtPath ==
  <<"/", "r", "a", "w">>

\* the eight bytes every PNG file starts with
PngMagic ==
  <<"0x89", "P", "N", "G", "\r", "\n", "0x1A", "\n">>

\* os.ReadFile(path) in the model's file system: [ok, data]
ReadFile(path) ==
  CASE path = sPngPath -> [ok |-> TRUE, data |-> PngMagic]
    [] path = sSchemaPath -> [ok |-> TRUE, data |-> <<"{", "}">>]
    [] path = sEmptyPath -> [ok |-> TRUE, data |-> <<>>]
    [] path = sNoExtPath -> [ok |-> TRUE, data |-> <<"h", "i">>]
    [] OTHER -> [ok |-> FALSE, data |-> <<>>]

\* readFileOrString: [s, err]
readFileOrString(pathOrString) ==
  IF HasPrefix(pathOrString, <<"@">>)
  THEN LET filePath == TrimPrefix(pathOrString, <<"@">>)
           f == ReadFile(filePath)
       IN  IF ~f.ok THEN [s |-> <<>>, err |-> Err("failed to read file", filePath)]
           ELSE [s |-> f.data, err |-> NoErr]
  ELSE [s |-> pathOrString, err |-> NoErr]

RECURSIVE LastElement(_)
\* the final element of a slash-separated path
LastElement(path) ==
  IF IndexOf(path, "/") = 0 THEN path
  ELSE LastElement(SubSeq(path, IndexOf(path, "/") + 1, Len(path)))

RECURSIVE FromLastDot(_)
FromLastDot(name) ==
  LET rest == SubSeq(name, IndexOf(name, ".") + 1, Len(name))
  IN  IF IndexOf(rest, ".") = 0 THEN <<".">> \o rest ELSE FromLastDot(rest)

\* filepath.Ext: the suffix from the final dot of the final element
Ext(path) ==
  LET name == LastElement(path)
  IN  IF IndexOf(name, ".") = 0 THEN <<>> ELSE FromLastDot(name)

sOctetStream ==
  <<"a", "p", "p", "l", "i", "c", "a", "t", "i", "o", "n", "/", "o", "c", "t", "e", "t", "-", "s", "t", "r", "e", "a", "m">>

sImagePng ==
  <<"i", "m", "a", "g", "e", "/", "p", "n", "g">>

sSniffedText ==
  <<"t", "e", "x", "t", "/", "p", "l", "a", "i", "n", ";", " ", "c", "h", "a", "r", "s", "e", "t", "=", "u", "t", "f", "-", "8">>

\* http.DetectContentType: the PNG signature, else binary or text by the
\* bytes the sniffer counts as binary
DetectContentType(data) ==
  IF HasPrefix(data, PngMagic) THEN sImagePng
  ELSE IF \E i \in 1..Len(data) : data[i] \in {"0x00", "0x1A"} THEN sOctetStream
  ELSE sSniffedText

\* the extension table of readFileAsBase64; <<>> when the extension is not
\* in it
LocalExtMime(ext) ==
  CASE ext = <<".", "t", "x", "t">> -> <<"t", "e", "x", "t", "/", "p", "l", "a", "i", "n">>
    [] ext = <<".", "j", "s", "o", "n">> -> <<"a", "p", "p", "l", "i", "c", "a", "t", "i", "o", "n", "/", "j", "s", "o", "n">>
    [] ext \in {<<".", "j", "p", "g">>, <<".", "j", "p", "e", "g">>} -> <<"i", "m", "a", "g", "e", "/", "j", "p", "e", "g">>
    [] ext = <<".", "p", "n", "g">> -> sImagePng
    [] ext = <<".", "g", "i", "f">> -> <<"i", "m", "a", "g", "e", "/", "g", "i", "f">>
    [] ext = <<".", "w", "e", "b", "p">> -> <<"i", "m", "a", "g", "e", "/", "w", "e", "b", "p">>
    [] ext = <<".", "h", "e", "i", "c">> -> <<"i", "m", "a", "g", "e", "/", "h", "e", "i", "c">>
    [] ext = <<".", "h", "e", "i", "f">> -> <<"i", "m", "a", "g", "e", "/", "h", "e", "i", "f">>
    [] ext = <<".", "p", "d", "f">> -> <<"a", "p", "p", "l", "i", "c", "a", "t", "i", "o", "n", "/", "p", "d", "f">>
    [] ext = <<".", "m", "p", "3">> -> <<"a", "u", "d", "i", "o", "/", "m", "p", "e", "g">>
    [] ext = <<".", "w", "a", "v">> -> <<"a", "u", "d", "i", "o", "/", "w", "a", "v">>
    [] ext = <<".", "m", "p", "4">> -> <<"v", "i", "d", "e", "o", "/", "m", "p", "4">>
    [] OTHER -> <<>>

\* the switch on the extension, with its default
localMimeType(tableMime, data) ==
  IF tableMime # <<>> THEN tableMime ELSE DetectContentType(data)

\* the part of readFileAsBase64 that follows os.ReadFile
encodeLocalFile(filePath, f) ==
  IF ~f.ok
  THEN [mimeType |-> <<>>, data |-> <<>>, err |-> Err("failed to read file", filePath)]
  ELSE [mimeType |-> localMimeType(LocalExtMime(ToLower(Ext(filePath))), f.data),
        data |-> EncodeToString(f.data),
        err |-> NoErr]

\* readFileAsBase64: [mimeType, data, err]
readFileAsBase64(filePath) ==
  encodeLocalFile(filePath, ReadFile(filePath))

\* the extension table of readURLAsBase64
URLExtMime(ext) ==
  CASE ext \in {<<".", "j", "p", "g">>, <<".", "j", "p", "e", "g">>} -> <<"i", "m", "a", "g", "e", "/", "j", "p", "e", "g">>
    [] ext = <<".", "p", "n", "g">> -> sImagePng
    [] ext = <<".", "g", "i", "f">> -> <<"i", "m", "a", "g", "e", "/", "g", "i", "f">>
    [] ext = <<".", "w", "e", "b", "p">> -> <<"i", "m", "a", "g", "e", "/", "w", "e", "b", "p">>
    [] ext = <<".", "p", "d", "f">> -> <<"a", "p", "p", "l", "i", "c", "a", "t", "i", "o", "n", "/", "p", "d", "f">>
    [] ext = <<".", "t", "x", "t">> -> <<"t", "e", "x", "t", "/", "p", "l", "a", "i", "n">>
    [] OTHER -> <<>>

\* url.Parse(u).Path for scheme://host/path?query
URLPath(u) ==
  LET afterScheme == SubSeq(u, IndexOf(u, "/") + 2, Len(u))
      fromSlash == IF IndexOf(afterScheme, "/") = 0 THEN <<>>
                   ELSE SubSeq(afterScheme, IndexOf(afterScheme, "/"), Len(afterScheme))
  IN  IF IndexOf(fromSlash, "?") = 0 THEN fromSlash
      ELSE SubSeq(fromSlash, 1, IndexOf(fromSlash, "?") - 1)

\* What a server answers to http.Get: whether the transport delivered a
\* response, its status, its Content-Type header, whether its body could be
\* read, and the body.
FetchResponse(transport, code, line, ctype, readOk, body) ==
  [transport |-> transport, StatusCode |-> code, Status |-> line,
   ContentType |-> ctype, readOk |-> readOk, body |-> body]

\* the refinement of the Content-Type header in readURLAsBase64
remoteMimeType(header, pathMime, detectedMime) ==
  IF header = <<>> \/ header = sOctetStream \/ ~Contains(header, <<"/">>)
  THEN IF pathMime # <<>> THEN pathMime
       ELSE IF detectedMime # sOctetStream THEN detectedMime
       ELSE IF header = <<>> THEN sOctetStream
       ELSE header
  ELSE header

\* readURLAsBase64: [mimeType, data, err]
readURLAsBase64(fileURL, resp) ==
  IF ~resp.transport
  THEN [mimeType |-> <<>>, data |-> <<>>, err |-> Err("failed to fetch URL", fileURL)]
  ELSE IF resp.StatusCode # 200
  THEN [mimeType |-> <<>>, data |-> <<>>,
        err |-> Err("failed to fetch URL: status", fileURL \o resp.Status)]
  ELSE IF ~resp.readOk
  THEN [mimeType |-> <<>>, data |-> <<>>,
        err |-> Err("failed to read response body from URL", fileURL)]
  ELSE [mimeType |-> remoteMimeType(resp.ContentType,
                                    URLExtMime(ToLower(Ext(URLPath(fileURL)))),
                                    DetectContentType(resp.body)),
        data |-> EncodeToString(resp.body),
        err |-> NoErr]

sFileScheme ==
  <<"f", "i", "l", "e", ":", "/", "/">>

sHttp ==
  <<"h", "t", "t", "p", ":", "/", "/">>

sHttps ==
  <<"h", "t", "t", "p", "s", ":", "/", "/">>

\* whether processFileArgument makes an HTTP request for this argument
IsRemote(arg) ==
  /\ ~HasPrefix(arg, <<"@">>)
  /\ ~HasPrefix(arg, sFileScheme)
  /\ HasPrefix(arg, sHttp) \/ HasPrefix(arg, sHttps)

\* url.Parse refuses a URL that holds a control character
HasCtl(u) ==
  \E i \in 1..Len(u) : u[i] \in {"\n", "\r", "\t"}

\* processFileArgument: [mimeType, data, err]; resp is what the server
\* answers should the argument be fetched.  os.PathSeparator is '/'.
processFileArgument(arg, resp) ==
  IF HasPrefix(arg, <<"@">>) THEN readFileAsBase64(TrimPrefix(arg, <<"@">>))
  ELSE IF HasPrefix(arg, sFileScheme)
    THEN IF HasCtl(arg)
         THEN [mimeType |-> <<>>, data |-> <<>>, err |-> Err("invalid file URI", arg)]
         ELSE readFileAsBase64(URLPath(arg))
  ELSE IF HasPrefix(arg, sHttp) \/ HasPrefix(arg, sHttps) THEN readURLAsBase64(arg, resp)
  ELSE IF HasPrefix(arg, sDataColon) THEN parseDataURI(arg)
  ELSE [mimeType |-> <<>>, data |-> <<>>,
        err |-> Err("unsupported file argument format", arg)]

-----------------------------------------------------------------------------
(* api.go: buildGenerateContentRequest *)

RECURSIVE resolveParts(_, _, _, _)

\* mutant: a file part that fails gives an empty fragment and the loop
\* goes on
resolveFilePart_Continue(pparts, resps, apiParts, fetched, value, r) ==
  resolveParts(pparts, resps,
    Append(apiParts,
           [Text |-> Nil,
            InlineData |-> Some([MIMEType |-> r.mimeType, Data |-> r.data])]),
    fetched)

\* case "file" of the loop, r being what processFileArgument returned
resolveFilePart(pparts, resps, apiParts, fetched, value, r) ==
  IF r.err # NoErr
  THEN [parts |-> <<>>, err |-> Err("failed to process file argument", value),
        fetched |-> fetched]
  ELSE resolveParts(pparts, resps,
         Append(apiParts,
                [Text |-> Nil,
                 InlineData |-> Some([MIMEType |-> r.mimeType, Data |-> r.data])]),
         fetched)

\* one round of the loop, p being the part
resolvePart(pparts, resps, apiParts, fetched, p, resp) ==
  IF p.Type = sText
  THEN resolveParts(pparts, resps,
         Append(apiParts, [Text |-> Some(p.Value), InlineData |-> Nil]), fetched)
  ELSE IF p.Type = sFile
  THEN resolveFilePart(pparts, resps, apiParts,
         IF IsRemote(p.Value) THEN Append(fetched, p.Value) ELSE fetched,
         p.Value, processFileArgument(p.Value, resp))
  ELSE [parts |-> <<>>, err |-> Err("unknown parsed part type", p.Type),
        fetched |-> fetched]

\* the loop over parsedParts: [parts, err, fetched]; resps[i] is what the
\* server answers if part i is fetched, fetched lists the URLs requested
resolveParts(pparts, resps, apiParts, fetched) ==
  IF Len(apiParts) + 1 > Len(pparts)
  THEN [parts |-> apiParts, err |-> NoErr, fetched |-> fetched]
  ELSE resolvePart(pparts, resps, apiParts, fetched,
                   pparts[Len(apiParts) + 1], resps[Len(apiParts) + 1])

\* mutant: zero counts as unset
OptNum_Positive(n) ==
  IF n > 0 THEN Some(n) ELSE Nil

\* the set of a flag that holds a number: unset below zero
OptNum(n) ==
  IF n >= 0 THEN Some(n) ELSE Nil

\* the set of a flag that holds a string: unset when empty
OptStr(str) ==
  IF str # <<>> THEN Some(str) ELSE Nil

\* the thinking configuration: <<>> when neither field is set
buildThinkingConfig(genConfigInput) ==
  IF genConfigInput.ThinkingBudget >= 0 \/ genConfigInput.IncludeThoughts
  THEN Some([ThinkingBudget |-> OptNum(genConfigInput.ThinkingBudget),
             IncludeThoughts |-> IF genConfigInput.IncludeThoughts
                                 THEN Some(TRUE) ELSE Nil])
  ELSE Nil

\* genCfg with its fields set, schema being the response schema read
generationConfigOf(genConfigInput, schema, thinking) ==
  [StopSequences |-> IF genConfigInput.StopSequence # <<>>
                     THEN <<genConfigInput.StopSequence>> ELSE <<>>,
   Temperature |-> OptNum(genConfigInput.Temperature),
   MaxOutputTokens |-> OptNum(genConfigInput.MaxOutputTokens),
   TopP |-> OptNum(genConfigInput.TopP),
   TopK |-> OptNum(genConfigInput.TopK),
   ResponseMimeType |-> OptStr(genConfigInput.ResponseMimeType),
   ResponseSchema |-> schema,
   ThinkingConfig |-> thinking]

\* genCfgChanged
genCfgChanged(genConfigInput, thinking) ==
  \/ genConfigInput.Temperature >= 0
  \/ genConfigInput.MaxOutputTokens >= 0
  \/ genConfigInput.TopP >= 0
  \/ genConfigInput.TopK >= 0
  \/ genConfigInput.StopSequence # <<>>
  \/ genConfigInput.ResponseMimeType # <<>>
  \/ genConfigInput.ResponseSchemaFileOrJSON # <<>>
  \/ thinking # Nil

\* the generation block once the response schema was read: [cfg, err]
generationConfigWith(genConfigInput, schema, thinking) ==
  IF schema.err # NoErr
  THEN [cfg |-> Nil, err |-> Err("failed to read response-schema", schema.err.arg)]
  ELSE [cfg |-> IF genCfgChanged(genConfigInput, thinking)
                THEN Some(generationConfigOf(genConfigInput, schema.s, thinking))
                ELSE Nil,
        err |-> NoErr]

\* "Populate GenerationConfig": [cfg, err], cfg being req.GenerationConfig
buildGenerationConfig(genConfigInput) ==
  generationConfigWith(genConfigInput,
    IF genConfigInput.ResponseSchemaFileOrJSON # <<>>
    THEN readFileOrString(genConfigInput.ResponseSchemaFileOrJSON)
    ELSE [s |-> <<>>, err |-> NoErr],
    buildThinkingConfig(genConfigInput))

\* mutant: the threshold alone does not give a dynamic-retrieval sub-config
buildSearchRetrieval_ModeOnly(toolsInput) ==
  IF toolsInput.GoogleSearchRetrievalMode # <<>>
  THEN [DynamicRetrievalConfig |->
          Some([Mode |-> toolsInput.GoogleSearchRetrievalMode,
                DynamicThreshold |-> OptNum(toolsInput.GoogleSearchRetrievalThreshold)])]
  ELSE [DynamicRetrievalConfig |-> Nil]

\* the google_search_retrieval descriptor
buildSearchRetrieval(toolsInput) ==
  IF toolsInput.GoogleSearchRetrievalMode # <<>>
       \/ toolsInput.GoogleSearchRetrievalThreshold >= 0
  THEN [DynamicRetrievalConfig |->
          Some([Mode |-> toolsInput.GoogleSearchRetrievalMode,
                DynamicThreshold |-> OptNum(toolsInput.GoogleSearchRetrievalThreshold)])]
  ELSE [DynamicRetrievalConfig |-> Nil]

\* "Populate Tools": req.Tools
buildTools(toolsInput) ==
  (IF toolsInput.EnableURLContext
   THEN <<[URLContext |-> TRUE, GoogleSearch |-> FALSE, GoogleSearchRetrieval |-> Nil]>>
   ELSE <<>>)
  \o
  (IF toolsInput.EnableGoogleSearch
   THEN <<[URLContext |-> FALSE, GoogleSearch |-> TRUE, GoogleSearchRetrieval |-> Nil]>>
   ELSE <<>>)
  \o
  (IF toolsInput.EnableGoogleSearchRetrieval
   THEN <<[URLContext |-> FALSE, GoogleSearch |-> FALSE,
           GoogleSearchRetrieval |-> Some(buildSearchRetrieval(toolsInput))]>>
   ELSE <<>>)

RECURSIVE safetyLoop(_, _)

\* mutant: the category and the threshold are stored as they were split
safetyPair_Untrimmed(pairs, settings, pair, parts) ==
  IF Len(parts) = 2
  THEN IF TrimSpace(parts[1]) # <<>> /\ TrimSpace(parts[2]) # <<>>
       THEN safetyLoop(Tail(pairs),
              Append(settings, [Category |-> parts[1], Threshold |-> parts[2]]))
       ELSE [settings |-> <<>>, err |-> Err("invalid safety setting pair", pair)]
  ELSE IF TrimSpace(pair) # <<>>
  THEN [settings |-> <<>>, err |-> Err("invalid safety setting format", pair)]
  ELSE safetyLoop(Tail(pairs), settings)

\* one round of the loop, parts being the trimmed pair split on its first
\* colon
safetyPair(pairs, settings, pair, parts) ==
  IF Len(parts) = 2
  THEN IF TrimSpace(parts[1]) # <<>> /\ TrimSpace(parts[2]) # <<>>
       THEN safetyLoop(Tail(pairs),
              Append(settings, [Category |-> TrimSpace(parts[1]),
                                Threshold |-> TrimSpace(parts[2])]))
       ELSE [settings |-> <<>>, err |-> Err("invalid safety setting pair", pair)]
  ELSE IF TrimSpace(pair) # <<>>
  THEN [settings |-> <<>>, err |-> Err("invalid safety setting format", pair)]
  ELSE safetyLoop(Tail(pairs), settings)

\* the loop over the comma-separated pairs: [settings, err]
safetyLoop(pairs, settings) ==
  IF pairs = <<>> THEN [settings |-> settings, err |-> NoErr]
  ELSE safetyPair(pairs, settings, Head(pairs),
                  SplitN2(TrimSpace(Head(pairs)), ":"))

\* "Populate Safety Settings": [settings, err]
buildSafetySettings(safetySettingsStr) ==
  IF safetySettingsStr # <<>>
  THEN safetyLoop(Split(safetySettingsStr, ","), <<>>)
  ELSE [settings |-> <<>>, err |-> NoErr]

\* mutant: the request is built even when it has neither parts nor a system
\* instruction
buildError_NoEmptyCheck(systemInstructionStr, pparts, resolvedErr, genErr, safetyErr) ==
  IF resolvedErr # NoErr THEN resolvedErr
  ELSE IF genErr # NoErr THEN genErr
  ELSE safetyErr

\* the error buildGenerateContentRequest returns, in the order it meets them
buildError(systemInstructionStr, pparts, resolvedErr, genErr, safetyErr) ==
  IF resolvedErr # NoErr THEN resolvedErr
  ELSE IF Len(pparts) = 0 /\ systemInstructionStr = <<>>
  THEN Err("at least one input part or system instruction is required", <<>>)
  ELSE IF genErr # NoErr THEN genErr
  ELSE safetyErr

\* what buildGenerateContentRequest returns: [req, err, fetched]
buildResult(systemInstructionStr, pparts, toolsInput, resolved, gen, safety, err) ==
  [req |-> IF err # NoErr THEN Nil
           ELSE Some([SystemInstruction |-> OptStr(systemInstructionStr),
                      Contents |-> IF Len(pparts) > 0
                                   THEN <<[Parts |-> resolved.parts]>> ELSE <<>>,
                      Tools |-> buildTools(toolsInput),
                      SafetySettings |-> safety.settings,
                      GenerationConfig |-> gen.cfg]),
   err |-> err,
   fetched |-> resolved.fetched]

\* the function once its three parts were computed
buildFrom(systemInstructionStr, pparts, toolsInput, resolved, gen, safety) ==
  buildResult(systemInstructionStr, pparts, toolsInput, resolved, gen, safety,
              buildError(systemInstructionStr, pparts, resolved.err, gen.err, safety.err))

\* buildGenerateContentRequest: [req, err, fetched]; req is <<>> (nil) with
\* an error, fetched lists the URLs requested while resolving the parts
buildGenerateContentRequest(systemInstructionStr, pparts, genConfigInput, toolsInput, safetySettingsStr, resps) ==
  buildFrom(systemInstructionStr, pparts, toolsInput,
            IF Len(pparts) > 0 THEN resolveParts(pparts, resps, <<>>, <<>>)
            ELSE [parts |-> <<>>, err |-> NoErr, fetched |-> <<>>],
            buildGenerationConfig(genConfigInput),
            buildSafetySettings(safetySettingsStr))

-----------------------------------------------------------------------------
(* api.go: makeAPIRequest *)

\* main.go: baseURL, held as one piece
baseURL ==
  <<"https://generativelanguage.googleapis.com/v1beta">>

\* What the API server answers: whether the transport delivered a response,
\* its status code and status line, whether its body could be read, and the
\* body.
ApiResponse(transport, code, line, readOk, body) ==
  [transport |-> transport, StatusCode |-> code, Status |-> line,
   readOk |-> readOk, body |-> body]

sOneModelBody ==
  <<"{", "\"models\":", "[", "m1", "]", "}">>

sTwoModelsBody ==
  <<"{", "\"models\":", "[", "m1", ",", "m2", "]", "}">>

ModelGemini ==
  [Name |-> <<"m", "o", "d", "e", "l", "s", "/", "g">>, DisplayName |-> <<"G", "e", "m", "i", "n", "i", " ", "2", ".", "5", " ", "P", "r", "o">>,
   SupportedGenerationMethods |-> <<"generateContent", "countTokens">>]

ModelImagen ==
  [Name |-> <<"m", "o", "d", "e", "l", "s", "/", "i">>, DisplayName |-> <<"I", "m", "a", "g", "e", "n", " ", "3">>,
   SupportedGenerationMethods |-> <<"predict", "generateContent">>]

\* json.Unmarshal(responseBody, &ListModelsResponse{}): [ok, Models], on the
\* bodies the model's server sends
jsonUnmarshalModels(body) ==
  CASE body = <<"{", "}">> -> [ok |-> TRUE, Models |-> <<>>]
    [] body = sOneModelBody -> [ok |-> TRUE, Models |-> <<ModelGemini>>]
    [] body = sTwoModelsBody -> [ok |-> TRUE, Models |-> <<ModelImagen, ModelGemini>>]
    [] OTHER -> [ok |-> FALSE, Models |-> <<>>]

\* fmt.Errorf("API error: %s, Body: %s", resp.Status, string(responseBody))
apiErrorMessage(status, body) ==
  <<"API error: ">> \o status \o <<", Body: ">> \o body

\* mutant: only the 4xx and 5xx codes are errors
isAPIError_Only4xx5xx(resp) ==
  resp.StatusCode >= 400

\* resp.StatusCode != http.StatusOK
isAPIError(resp) ==
  resp.StatusCode # 200

\* makeAPIRequest from client.Do on, sent being the request
roundTrip(sent, hasTarget, resp, decoded) ==
  IF ~resp.transport
  THEN [err |-> Err("failed to execute request", <<>>),
        target |-> Nil, printed |-> <<>>, sent |-> sent]
  ELSE IF ~resp.readOk
  THEN [err |-> Err("failed to read response body", <<>>),
        target |-> Nil, printed |-> <<>>, sent |-> sent]
  ELSE IF isAPIError(resp)
  THEN [err |-> Err("API error", apiErrorMessage(resp.Status, resp.body)),
        target |-> Nil, printed |-> <<>>, sent |-> sent]
  ELSE IF hasTarget
  THEN IF ~decoded.ok
       THEN [err |-> Err("failed to unmarshal response into target", resp.body),
             target |-> Nil, printed |-> <<>>, sent |-> sent]
       ELSE [err |-> NoErr, target |-> Some(decoded.Models),
             printed |-> <<>>, sent |-> sent]
  ELSE [err |-> NoErr, target |-> Nil, printed |-> <<resp.body>>, sent |-> sent]

\* mutant: a request the transport could not deliver is sent once more
requestTo_Retry(fullURL, method, body, hasTarget, resp) ==
  IF HasCtl(fullURL)
  THEN [err |-> Err("failed to create request", fullURL),
        target |-> Nil, printed |-> <<>>, sent |-> <<>>]
  ELSE roundTrip(IF resp.transport
                 THEN <<[method |-> method, url |-> fullURL, body |-> body]>>
                 ELSE <<[method |-> method, url |-> fullURL, body |-> body],
                        [method |-> method, url |-> fullURL, body |-> body]>>,
                 hasTarget, resp, jsonUnmarshalModels(resp.body))

\* makeAPIRequest once the URL is put together
requestTo(fullURL, method, body, hasTarget, resp) ==
  IF HasCtl(fullURL)
  THEN [err |-> Err("failed to create request", fullURL),
        target |-> Nil, printed |-> <<>>, sent |-> <<>>]
  ELSE roundTrip(<<[method |-> method, url |-> fullURL, body |-> body]>>,
                 hasTarget, resp, jsonUnmarshalModels(resp.body))

\* makeAPIRequest: [err, target, printed, sent]; target is what was
\* deserialized into the target (<<>> if nothing), printed what went to
\* standard output, sent the HTTP requests handed to the transport
makeAPIRequest(apiKey, method, endpointURL, body, hasTarget, resp) ==
  requestTo(baseURL \o endpointURL \o <<"?key=">> \o apiKey,
            method, body, hasTarget, resp)

-----------------------------------------------------------------------------
(* handlers: handleListModels' classification *)

\* mutant: imagen and veo are looked for anywhere in the display name
supportedForTextOutput_Anywhere(m) ==
  LET supportsGenContent ==
        \E i \in 1..Len(m.SupportedGenerationMethods) :
          m.SupportedGenerationMethods[i] = "generateContent"
      dnLower == ToLower(m.DisplayName)
  IN  IF ~supportsGenContent THEN "No"
      ELSE IF \/ Contains(dnLower, <<"t", "t", "s">>)
              \/ Contains(dnLower, <<"i", "m", "a", "g", "e", "n">>)
              \/ Contains(dnLower, <<"v", "e", "o">>)
              \/ Contains(dnLower, <<"e", "m", "b", "e", "d", "d", "i", "n", "g">>)
      THEN "No (Specialized: Audio/Image/Video/Embedding)"
      ELSE "Yes"

\* isTextSupported of one model
supportedForTextOutput(m) ==
  LET supportsGenContent ==
        \E i \in 1..Len(m.SupportedGenerationMethods) :
          m.SupportedGenerationMethods[i] = "generateContent"
      dnLower == ToLower(m.DisplayName)
  IN  IF ~supportsGenContent THEN "No"
      ELSE IF \/ Contains(dnLower, <<"t", "t", "s">>)
              \/ HasPrefix(dnLower, <<"i", "m", "a", "g", "e", "n">>)
              \/ HasPrefix(dnLower, <<"v", "e", "o">>)
              \/ Contains(dnLower, <<"e", "m", "b", "e", "d", "d", "i", "n", "g">>)
      THEN "No (Specialized: Audio/Image/Video/Embedding)"
      ELSE "Yes"

\* processedModels
processModels(models) ==
  [i \in 1..Len(models) |->
     [Name |-> models[i].Name,
      DisplayName |-> models[i].DisplayName,
      SupportedGenerationMethods |-> models[i].SupportedGenerationMethods,
      SupportedForTextOutput |-> supportedForTextOutput(models[i])]]

\* json.Marshal(requestPayload) fails on a response schema that is not
\* JSON; an empty one is left out of the output
jsonMarshalRequestOk(req) ==
  \/ req.GenerationConfig = Nil
  \/ req.GenerationConfig[1].ResponseSchema \in {<<>>, <<"{", "}">>}

-----------------------------------------------------------------------------
(* The state of a process that has not been started. *)

NoInv ==
  <<>>

IdleProg ==
  /\ pc = "idle"
  /\ inv = NoInv
  /\ parsedParts = <<>>
  /\ currentApiKey = <<>>
  /\ requestPayload = Nil
  /\ netLog = <<>>
  /\ stdout = <<>>
  /\ stderr = <<>>
  /\ exitCode = -1
  /\ lastSaved = Nil

-----------------------------------------------------------------------------
(* parseInputParts called on its own, on every argument list of at most    *)
(* MaxArgs tokens.                                                         *)

sBogus ==
  <<"t", "e", "x">>

sHello ==
  <<"h", "i">>

ParseTokens ==
  {sText, sFile, sBogus, sHello}

InitParse ==
  /\ IdleProg
  /\ configFile = NoFile
  /\ fileAtStart = NoFile
  /\ callArgs \in SeqsUpTo(ParseTokens, MaxArgs)
  /\ callRet = <<>>

CallParse ==
  /\ callRet = <<>>
  /\ callRet' = <<parseInputParts(callArgs)>>
  /\ UNCHANGED <<progVars, callArgs>>

NextParse ==
  CallParse

SpecParse ==
  InitParse /\ [][NextParse]_vars

\* the even (0-based) positions of an argument list, 1-based
TypePositions(args) ==
  {i \in 1..Len(args) : i % 2 = 1}

WellFormedArgs(args) ==
  /\ Len(args) % 2 = 0
  /\ \A i \in TypePositions(args) : args[i] \in {sText, sFile}

\* C1: parseInputParts succeeds exactly when the argument list has even
\* length and every token at an even 0-based index is "text" or "file"; on
\* success it returns len(args)/2 parts, part i being (args[2i], args[2i+1])
\* in input order; every odd-length list fails, and so does every list with
\* an unrecognized type token, wherever that token stands.
C1_ParseInputParts ==
  callRet # <<>> =>
    LET r == callRet[1]
        args == callArgs
    IN  /\ (r.err = NoErr) <=> WellFormedArgs(args)
        /\ Len(args) % 2 = 1 => r.err # NoErr
        /\ (\E i \in TypePositions(args) : args[i] \notin {sText, sFile})
             => r.err # NoErr
        /\ r.err = NoErr =>
             /\ Len(r.parts) * 2 = Len(args)
             /\ \A k \in 1..Len(r.parts) :
                  r.parts[k] = [Type |-> args[2 * k - 1], Value |-> args[2 * k]]
        /\ r.err # NoErr => r.parts = <<>>

\* a four-token list whose only unrecognized type token is the second one
\* has been rejected, and a two-part list has been parsed
C1_Witness ==
  /\ callRet # <<>>
  /\ callArgs = <<sText, sHello, sBogus, sHello>>
  /\ callRet[1].err.kind = "invalid part type"

-----------------------------------------------------------------------------
(* saveAPIKey called once and loadAPIKey any number of times, on every key *)
(* of at most MaxKeyLen characters and under every file system outcome.    *)

KeyChars ==
  {"A", cQuote, cBackslash, cLess, cBadByte}

KeyStrings ==
  SeqsUpTo(KeyChars, MaxKeyLen)

\* callArgs holds the function called last, the file system outcome it met,
\* and in saved the key the most recent saveAPIKey wrote if it returned nil
InitKeyStore ==
  /\ IdleProg
  /\ configFile \in FoundFiles
  /\ fileAtStart = configFile
  /\ callArgs = [fn |-> "none", fs |-> FsAllOk, saved |-> Nil]
  /\ callRet = <<>>

\* saveAPIKey is called once, on the file as it was found
CallSave ==
  \E k \in KeyStrings, fs \in FsOutcomes :
    LET r == saveAPIKey(k, fs, configFile)
    IN  /\ callArgs.fn = "none"
        /\ fs.read
        /\ configFile' = r.file
        /\ lastSaved' = IF r.err = NoErr THEN Some(k) ELSE lastSaved
        /\ callArgs' = [fn |-> "saveAPIKey", fs |-> fs,
                        saved |-> IF r.err = NoErr THEN Some(k) ELSE Nil]
        /\ callRet' = <<[err |-> r.err, out |-> r.out]>>
        /\ UNCHANGED <<pc, inv, parsedParts, currentApiKey, requestPayload,
                       netLog, stdout, stderr, exitCode, fileAtStart>>

CallLoad ==
  \E fs \in FsOutcomes :
    /\ fs.write = "ok"
    /\ callArgs' = [fn |-> "loadAPIKey", fs |-> fs, saved |-> callArgs.saved]
    /\ callRet' = <<loadAPIKey(fs, configFile)>>
    /\ UNCHANGED progVars

NextKeyStore ==
  CallSave \/ CallLoad

SpecKeyStore ==
  InitKeyStore /\ [][NextKeyStore]_vars

\* loadAPIKey has just returned, the file system having let it through, and
\* the saveAPIKey before it returned nil
LoadedAfterSave ==
  /\ callArgs.fn = "loadAPIKey"
  /\ callArgs.fs.dir = "ok"
  /\ callArgs.fs.read
  /\ callArgs.saved # Nil

ValidUTF8(s) ==
  \A i \in 1..Len(s) : s[i] # cBadByte

\* C3 as stated: for every key string, saveAPIKey(key) followed by
\* loadAPIKey() returns the identical string.
C3_RoundTripEveryKey ==
  LoadedAfterSave =>
    /\ callRet[1].err = NoErr
    /\ callRet[1].key = callArgs.saved[1]

\* C3 as amended: for every non-empty key that is valid UTF-8, a
\* saveAPIKey(key) that returns nil followed by a loadAPIKey() that meets no
\* file system error returns the identical string; the empty key is saved
\* and then refused by loadAPIKey, and a byte that is not valid UTF-8 comes
\* back as U+FFFD.
C3_RoundTrip ==
  LoadedAfterSave =>
    LET key == callArgs.saved[1]
        r == callRet[1]
    IN  /\ (key # <<>> /\ ValidUTF8(key)) => (r.err = NoErr /\ r.key = key)
        /\ key = <<>> => r.err.kind = "API key not found in config file"
        /\ (key # <<>> /\ ~ValidUTF8(key)) =>
             /\ r.err = NoErr
             /\ r.key = [i \in 1..Len(key) |->
                           IF key[i] = cBadByte THEN cReplacement ELSE key[i]]

\* a key made of a backslash and a quote, both of which are escaped in the
\* file, has been saved and loaded back
C3_Witness ==
  /\ LoadedAfterSave
  /\ callArgs.saved[1] = <<cBackslash, cQuote>>
  /\ configFile.data # jsonOpen \o callArgs.saved[1] \o jsonClose
  /\ callRet[1].key = callArgs.saved[1]

-----------------------------------------------------------------------------
(* parseDataURI called on its own.  The argument is a header made of at    *)
(* most MaxHeaderTokens pieces, followed by one of a few tails.            *)

sHelloB64 ==
  <<"a", "G", "V", "s", "b", "G", "8", "=">>

HeaderTokens ==
  {sDataColon, sImagePng, <<";">>, sBase64, <<"B", "A", "S", "E", "6", "4">>}

PayloadTails ==
  {<<>>,
   <<",">>,
   <<",">> \o sHelloB64,
   <<",">> \o SubSeq(sHelloB64, 1, 3),
   <<",">> \o SubSeq(sHelloB64, 1, 4) \o <<"\n">> \o SubSeq(sHelloB64, 5, 8),
   <<",">> \o sHelloB64 \o <<",">> \o sHelloB64,
   <<",">> \o SubSeq(sHelloB64, 1, 6) \o <<"=", "=">>,
   <<",">> \o <<"a", "G", "V", "*">>}

DataURIs ==
  {Flatten(h) \o t : h \in SeqsUpTo(HeaderTokens, MaxHeaderTokens), t \in PayloadTails}

InitDataURI ==
  /\ IdleProg
  /\ configFile = NoFile
  /\ fileAtStart = NoFile
  /\ callArgs \in DataURIs
  /\ callRet = <<>>

CallParseDataURI ==
  /\ callRet = <<>>
  /\ callRet' = <<parseDataURI(callArgs)>>
  /\ UNCHANGED <<progVars, callArgs>>

NextDataURI ==
  CallParseDataURI

SpecDataURI ==
  InitDataURI /\ [][NextDataURI]_vars

\* well-formed standard base64, line breaks aside: groups of four characters
\* of the alphabet, the last group ending in nothing, "=" or "=="
WellFormedBase64(p) ==
  LET s == DropNewlines(p)
      n == Len(s)
      pad == IF n >= 1 /\ s[n] = "="
             THEN (IF n >= 2 /\ s[n - 1] = "=" THEN 2 ELSE 1)
             ELSE 0
  IN  /\ n % 4 = 0
      /\ \A i \in 1..(n - pad) : IsB64Char(s[i])

\* C8: parseDataURI accepts a value only if it has a comma separating header
\* from payload, the header begins with "data:", the header declares base64
\* and the payload is well-formed standard base64; on acceptance it returns
\* the payload unchanged and the declared MIME type, or "text/plain" when the
\* header omits the type; a data URI without ";base64" is rejected.
C8_ParseDataURI ==
  callRet # <<>> =>
    LET u == callArgs
        r == callRet[1]
        c == IndexOf(u, ",")
        header == SubSeq(u, 1, c - 1)
        payload == SubSeq(u, c + 1, Len(u))
        declared == SubSeq(header, Len(sDataColon) + 1,
                           IF IndexOf(header, ";") = 0 THEN Len(header)
                           ELSE IndexOf(header, ";") - 1)
    IN  /\ r.err = NoErr =>
             /\ c > 0
             /\ HasPrefix(header, sDataColon)
             /\ Contains(ToLower(header), <<";">> \o sBase64)
             /\ WellFormedBase64(payload)
             /\ r.data = payload
             /\ r.mimeType = IF declared = <<>> THEN sTextPlain ELSE declared
        /\ ~Contains(ToLower(u), <<";">> \o sBase64) => r.err # NoErr
        /\ r.err # NoErr => (r.data = <<>> /\ r.mimeType = <<>>)
        /\ (/\ c > 0
            /\ header \in {sDataColon \o m \o <<";">> \o b :
                             m \in {<<>>, sImagePng}, b \in {sBase64}}
            /\ WellFormedBase64(payload)) => r.err = NoErr

\* data:image/png;base64,aGVsbG8= has been accepted with type image/png, and
\* its payload is the encoding of "hello"
C8_Witness ==
  /\ callRet # <<>>
  /\ callArgs = sDataColon \o sImagePng \o <<";">> \o sBase64 \o <<",">> \o sHelloB64
  /\ callRet[1] = [mimeType |-> sImagePng, data |-> sHelloB64, err |-> NoErr]
  /\ sHelloB64 = EncodeToString(<<"h", "e", "l", "l", "o">>)

-----------------------------------------------------------------------------
(* The program: one process at a time runs main on a command line, against *)
(* the config.json the processes before it left.                           *)

gcUnset ==
  [Temperature |-> -10, MaxOutputTokens |-> -1, TopP |-> -10, TopK |-> -1,
   StopSequence |-> <<>>, ResponseMimeType |-> <<>>,
   ResponseSchemaFileOrJSON |-> <<>>, ThinkingBudget |-> -1,
   IncludeThoughts |-> FALSE]

toolsOff ==
  [EnableURLContext |-> FALSE, EnableGoogleSearch |-> FALSE,
   EnableGoogleSearchRetrieval |-> FALSE, GoogleSearchRetrievalMode |-> <<>>,
   GoogleSearchRetrievalThreshold |-> -10]

CommandLine(cmd, key, model, sys, args, gc, tools, safety) ==
  [cmd |-> cmd, key |-> key, model |-> model, sys |-> sys, args |-> args,
   gc |-> gc, tools |-> tools, safety |-> safety]

BareCommand(cmd) ==
  CommandLine(cmd, <<>>, <<>>, <<>>, <<>>, gcUnset, toolsOff, <<>>)

sLocalPng ==
  <<"@", "/", "a", ".", "p", "n", "g">>

sRemote ==
  <<"h", "t", "t", "p", ":", "/", "/", "h", "/", "a">>

ProgKeys ==
  {<<>>, <<"A">>, <<"B", cBadByte>>}

ProgModels ==
  {<<>>, <<"m", "o", "d", "e", "l", "s", "/", "m">>, <<"m">>, <<"m", "\n">>}

ProgSys ==
  {<<>>, <<"s">>}

ProgArgTokens ==
  {sText, sFile, sLocalPng, sRemote}

ProgGenConfigs ==
  {gcUnset,
   [gcUnset EXCEPT !.ResponseSchemaFileOrJSON = <<"@", "/", "n", "o", "p", "e">>],
   [gcUnset EXCEPT !.ResponseSchemaFileOrJSON = <<"x">>, !.TopK = 40]}

ProgSafety ==
  {<<>>, <<"A", ":", "B">>, <<"A", "B">>}

\* The command lines of the model: every command; generate with every
\* argument list of at most MaxProgArgs tokens and the flags at their
\* defaults, and with every combination of the flags on the argument lists
\* of at most MaxFlaggedArgs tokens.
CommandLines ==
  {BareCommand("none"), BareCommand("help"), BareCommand("list-models")}
  \cup {CommandLine("set-config", k, <<>>, <<>>, <<>>, gcUnset, toolsOff, <<>>) :
          k \in ProgKeys}
  \cup {CommandLine("generate", <<>>, m, sys, a, gcUnset, toolsOff, <<>>) :
          m \in ProgModels, sys \in ProgSys,
          a \in SeqsUpTo(ProgArgTokens, MaxProgArgs)}
  \cup {CommandLine("generate", <<>>, m, sys, a, gc, toolsOff, sf) :
          m \in ProgModels \ {<<>>}, sys \in ProgSys,
          a \in SeqsUpTo(ProgArgTokens, MaxFlaggedArgs),
          gc \in ProgGenConfigs, sf \in ProgSafety}

ProgFetchResponses ==
  {FetchResponse(TRUE, 200, <<"200 OK">>, sImagePng, TRUE, PngMagic),
   FetchResponse(TRUE, 404, <<"404 Not Found">>, <<>>, TRUE, <<>>),
   FetchResponse(FALSE, 0, <<>>, <<>>, FALSE, <<>>)}

ProgApiResponses ==
  {ApiResponse(TRUE, 200, <<"200 OK">>, TRUE, sOneModelBody),
   ApiResponse(TRUE, 200, <<"200 OK">>, TRUE, <<"<", "h", ">">>),
   ApiResponse(TRUE, 403, <<"403 Forbidden">>, TRUE, <<"{", "e", "}">>),
   ApiResponse(TRUE, 200, <<"200 OK">>, FALSE, <<>>),
   ApiResponse(FALSE, 0, <<>>, FALSE, <<>>)}

Init ==
  /\ IdleProg
  /\ configFile \in FoundFiles
  /\ fileAtStart = configFile
  /\ callArgs = <<>>
  /\ callRet = <<>>

\* os.Exit(code) after the messages were written to standard error
Exit(code, messages) ==
  /\ pc' = "exit"
  /\ exitCode' = code
  /\ stderr' = stderr \o messages

\* a process is started on a command line
Start ==
  /\ pc = "idle"
  /\ \E c \in CommandLines : inv' = c
  /\ pc' = "main"
  /\ fileAtStart' = configFile
  /\ UNCHANGED <<configFile, parsedParts, currentApiKey, requestPayload, netLog,
                 stdout, stderr, exitCode, lastSaved, callArgs, callRet>>

\* the process that exited is gone, with all it held in memory
Gone ==
  /\ pc = "exit"
  /\ pc' = "idle"
  /\ inv' = NoInv
  /\ parsedParts' = <<>>
  /\ currentApiKey' = <<>>
  /\ requestPayload' = Nil
  /\ netLog' = <<>>
  /\ stdout' = <<>>
  /\ stderr' = <<>>
  /\ exitCode' = -1
  /\ UNCHANGED <<configFile, lastSaved, fileAtStart, callArgs, callRet>>

\* main with no command or an unknown one: printTopLevelHelp and exit 1
MainHelp ==
  /\ pc = "main"
  /\ inv.cmd \in {"none", "help"}
  /\ Exit(1, <<Err("usage", <<>>)>>)
  /\ UNCHANGED <<configFile, inv, parsedParts, currentApiKey, requestPayload,
                 netLog, stdout, lastSaved, fileAtStart, callArgs, callRet>>

\* main, case "set-config", with handleSetConfig
MainSetConfig ==
  /\ pc = "main"
  /\ inv.cmd = "set-config"
  /\ \/ /\ inv.key = <<>>
        /\ Exit(1, <<Err("--key is required for set-config", <<>>)>>)
        /\ UNCHANGED <<configFile, stdout, lastSaved>>
     \/ /\ inv.key # <<>>
        /\ \E fs \in FsOutcomes :
             LET r == saveAPIKey(inv.key, fs, configFile)
             IN  /\ fs.read
                 /\ configFile' = r.file
                 /\ stdout' = IF r.out = <<>> THEN stdout ELSE Append(stdout, r.out)
                 /\ IF r.err # NoErr
                    THEN Exit(1, <<Err("Error saving API key", r.err.arg)>>)
                         /\ UNCHANGED lastSaved
                    ELSE /\ pc' = "exit"
                         /\ exitCode' = 0
                         /\ lastSaved' = Some(inv.key)
                         /\ UNCHANGED stderr
  /\ UNCHANGED <<inv, parsedParts, currentApiKey, requestPayload, netLog,
                 fileAtStart, callArgs, callRet>>

\* mutant: main goes on with the parts it has when parseInputParts fails
GenParse_IgnoreError ==
  /\ pc = "main"
  /\ inv.cmd = "generate"
  /\ IF inv.model = <<>>
     THEN /\ Exit(1, <<Err("--model is required for generate", <<>>)>>)
          /\ UNCHANGED parsedParts
     ELSE /\ parsedParts' = parseInputParts(inv.args).parts
          /\ pc' = "gen_check"
          /\ UNCHANGED <<exitCode, stderr>>
  /\ UNCHANGED <<configFile, inv, currentApiKey, requestPayload, netLog, stdout,
                 lastSaved, fileAtStart, callArgs, callRet>>

\* main, case "generate", up to the call of parseInputParts
GenParse ==
  /\ pc = "main"
  /\ inv.cmd = "generate"
  /\ LET r == parseInputParts(inv.args)
     IN  IF inv.model = <<>>
         THEN /\ Exit(1, <<Err("--model is required for generate", <<>>)>>)
              /\ UNCHANGED parsedParts
         ELSE IF r.err # NoErr
         THEN /\ Exit(1, <<Err("Error parsing input parts", r.err.arg)>>)
              /\ UNCHANGED parsedParts
         ELSE /\ parsedParts' = r.parts
              /\ pc' = "gen_check"
              /\ UNCHANGED <<exitCode, stderr>>
  /\ UNCHANGED <<configFile, inv, currentApiKey, requestPayload, netLog, stdout,
                 lastSaved, fileAtStart, callArgs, callRet>>

\* main: the test for an empty request
GenCheckEmpty ==
  /\ pc = "gen_check"
  /\ IF Len(parsedParts) = 0 /\ inv.sys = <<>>
     THEN Exit(1, <<Err("At least one input part or system-instruction is required",
                        <<>>)>>)
     ELSE /\ pc' = "gen_loadkey"
          /\ UNCHANGED <<exitCode, stderr>>
  /\ UNCHANGED <<configFile, inv, parsedParts, currentApiKey, requestPayload,
                 netLog, stdout, lastSaved, fileAtStart, callArgs, callRet>>

\* mutant: the process goes on without a key when loadAPIKey fails
LoadKey_IgnoreError ==
  /\ \/ pc = "gen_loadkey"
     \/ pc = "main" /\ inv.cmd = "list-models"
  /\ \E fs \in FsOutcomes :
       /\ fs.write = "ok"
       /\ currentApiKey' = loadAPIKey(fs, configFile).key
       /\ pc' = IF inv.cmd = "generate" THEN "gen_build" ELSE "list_call"
       /\ UNCHANGED <<exitCode, stderr>>
  /\ UNCHANGED <<configFile, inv, parsedParts, requestPayload, netLog, stdout,
                 lastSaved, fileAtStart, callArgs, callRet>>

\* main: loadAPIKey, for generate and for list-models
LoadKey ==
  /\ \/ pc = "gen_loadkey"
     \/ pc = "main" /\ inv.cmd = "list-models"
  /\ \E fs \in FsOutcomes :
       LET r == loadAPIKey(fs, configFile)
       IN  /\ fs.write = "ok"
           /\ IF r.err # NoErr
              THEN /\ Exit(1, <<Err("Error loading API key", <<>>)>>)
                   /\ UNCHANGED currentApiKey
              ELSE /\ currentApiKey' = r.key
                   /\ pc' = IF inv.cmd = "generate" THEN "gen_build" ELSE "list_call"
                   /\ UNCHANGED <<exitCode, stderr>>
  /\ UNCHANGED <<configFile, inv, parsedParts, requestPayload, netLog, stdout,
                 lastSaved, fileAtStart, callArgs, callRet>>

\* the GET requests of the file parts that were fetched
FetchLog(urls) ==
  [i \in 1..Len(urls) |-> [method |-> "GET", url |-> urls[i], body |-> Nil]]

\* handleGenerateContent up to the test of the built request
GenBuild ==
  /\ pc = "gen_build"
  /\ \E resps \in [1..Len(parsedParts) -> ProgFetchResponses] :
       LET r == buildGenerateContentRequest(inv.sys, parsedParts, inv.gc,
                                            inv.tools, inv.safety, resps)
       IN  /\ netLog' = netLog \o FetchLog(r.fetched)
           /\ IF r.err # NoErr
              THEN /\ Exit(1, <<Err("Error building request", r.err.arg)>>)
                   /\ UNCHANGED requestPayload
              ELSE IF Len(r.req[1].Contents) = 0 /\ r.req[1].SystemInstruction = Nil
              THEN /\ Exit(1, <<Err("Request must contain 'contents' or 'system_instruction'",
                                    <<>>)>>)
                   /\ UNCHANGED requestPayload
              ELSE /\ requestPayload' = r.req
                   /\ pc' = "gen_send"
                   /\ UNCHANGED <<exitCode, stderr>>
  /\ UNCHANGED <<configFile, inv, parsedParts, currentApiKey, stdout, lastSaved,
                 fileAtStart, callArgs, callRet>>

sModelsSlash ==
  <<"m", "o", "d", "e", "l", "s", "/">>

\* handleGenerateContent: the model name with its "models/" prefix
qualifiedModelName(modelName) ==
  IF HasPrefix(modelName, sModelsSlash) THEN modelName ELSE sModelsSlash \o modelName

\* handleGenerateContent from json.Marshal to the end
GenSend ==
  /\ pc = "gen_send"
  /\ IF ~jsonMarshalRequestOk(requestPayload[1])
     THEN /\ Exit(1, <<Err("Error marshalling request to JSON", <<>>)>>)
          /\ UNCHANGED <<netLog, stdout>>
     ELSE \E resp \in ProgApiResponses :
            LET endpoint == <<"/">> \o qualifiedModelName(inv.model)
                              \o <<":generateContent">>
                r == makeAPIRequest(currentApiKey, "POST", endpoint,
                                    requestPayload, FALSE, resp)
            IN  /\ netLog' = netLog \o r.sent
                /\ stdout' = stdout \o r.printed
                /\ IF r.err # NoErr
                   THEN Exit(1, <<Err("Error making API request", r.err.arg)>>)
                   ELSE /\ pc' = "exit"
                        /\ exitCode' = 0
                        /\ UNCHANGED stderr
  /\ UNCHANGED <<configFile, inv, parsedParts, currentApiKey, requestPayload,
                 lastSaved, fileAtStart, callArgs, callRet>>

\* handleListModels
ListModels ==
  /\ pc = "list_call"
  /\ \E resp \in ProgApiResponses :
       LET r == makeAPIRequest(currentApiKey, "GET", <<"/", "m", "o", "d", "e", "l", "s">>, Nil, TRUE, resp)
       IN  /\ netLog' = netLog \o r.sent
           /\ IF r.err # NoErr
              THEN /\ Exit(1, <<Err("Error listing models", r.err.arg)>>)
                   /\ stdout' = stdout \o r.printed
              ELSE /\ stdout' = Append(stdout \o r.printed, processModels(r.target[1]))
                   /\ pc' = "exit"
                   /\ exitCode' = 0
                   /\ UNCHANGED stderr
  /\ UNCHANGED <<configFile, inv, parsedParts, currentApiKey, requestPayload,
                 lastSaved, fileAtStart, callArgs, callRet>>

Next ==
  \/ Start
  \/ Gone
  \/ MainHelp
  \/ MainSetConfig
  \/ GenParse
  \/ GenCheckEmpty
  \/ LoadKey
  \/ GenBuild
  \/ GenSend
  \/ ListModels

Spec ==
  Init /\ [][Next]_vars

-----------------------------------------------------------------------------
(* The claims about the program.                                           *)

\* a process is running generate
Generating ==
  inv # NoInv /\ inv.cmd = "generate"

\* the POST requests the process has sent
Posts ==
  {i \in 1..Len(netLog) : netLog[i].method = "POST"}

\* C2: every request buildGenerateContentRequest returns without error has a
\* system instruction or a content block with at least one part; with an
\* empty system instruction and no part the construction fails, and generate
\* exits before any network call: no file is fetched and nothing is posted.
C2_NonEmptyRequest ==
  /\ requestPayload # Nil =>
       \/ requestPayload[1].SystemInstruction # Nil
       \/ /\ Len(requestPayload[1].Contents) = 1
          /\ Len(requestPayload[1].Contents[1].Parts) >= 1
  /\ (Generating /\ inv.sys = <<>> /\ inv.args = <<>>) =>
       /\ buildGenerateContentRequest(inv.sys, <<>>, inv.gc, inv.tools, inv.safety, <<>>)
            = [req |-> Nil,
               err |-> Err("at least one input part or system instruction is required", <<>>),
               fetched |-> <<>>]
       /\ pc \in {"main", "gen_check", "exit"}
       /\ pc = "exit" => exitCode = 1
       /\ requestPayload = Nil
       /\ netLog = <<>>
       /\ stdout = <<>>

\* generate, given a model but neither a system instruction nor a part, has
\* exited with code 1 on main's own test, with no request on the network
C2_Witness ==
  /\ pc = "exit"
  /\ Generating
  /\ inv.model # <<>>
  /\ inv.sys = <<>>
  /\ inv.args = <<>>
  /\ exitCode = 1
  /\ stderr = <<Err("At least one input part or system-instruction is required", <<>>)>>
  /\ netLog = <<>>

\* C5 as stated: the stored credential is created or overwritten only by
\* set-config and is never deleted; after any sequence of set-config,
\* generate and list-models the file holds the key of the most recent
\* successful set-config, and generate and list-models leave the file as
\* they found it.
C5_StoredCredential ==
  /\ fileAtStart.exists => configFile.exists
  /\ (inv # NoInv /\ inv.cmd # "set-config") => configFile = fileAtStart
  /\ lastSaved # Nil =>
       configFile = [exists |-> TRUE, data |-> jsonMarshalConfig(lastSaved[1])]

\* C10: generate exits with a code other than zero when part parsing, the
\* test for an empty request, key loading, part resolution, request building
\* or the API call fails; it stops at the first failure, and a failure
\* before the API call means that nothing was posted and nothing printed.
C10_GenerateFailsFast ==
  /\ Generating =>
       /\ Cardinality(Posts) <= 1
       /\ pc # "exit" => (stdout = <<>> /\ stderr = <<>> /\ Posts = {})
  /\ (Generating /\ pc = "exit") =>
       /\ exitCode \in {0, 1}
       /\ exitCode = 0 <=> stderr = <<>>
       /\ Len(stderr) <= 1
       /\ parseInputParts(inv.args).err # NoErr => exitCode = 1
       /\ (Len(parsedParts) = 0 /\ inv.sys = <<>>) => exitCode = 1
       /\ currentApiKey = <<>> => exitCode = 1
       /\ requestPayload = Nil => exitCode = 1
       /\ exitCode = 0 =>
            /\ Cardinality(Posts) = 1
            /\ netLog[Len(netLog)].method = "POST"
            /\ Len(stdout) = 1
       /\ exitCode # 0 =>
            /\ stdout = <<>>
            /\ stderr[1].kind # "Error making API request" => Posts = {}
            /\ stderr[1].kind = "Error making API request" => requestPayload # Nil

\* generate has exited with code 1 because a file part could not be fetched:
\* the fetch is on the network, no request was built and nothing was posted
C10_Witness ==
  /\ pc = "exit"
  /\ Generating
  /\ exitCode = 1
  /\ stderr # <<>>
  /\ stderr[1].kind = "Error building request"
  /\ netLog # <<>>
  /\ netLog[1].method = "GET"
  /\ Posts = {}
  /\ requestPayload = Nil

-----------------------------------------------------------------------------
(* buildGenerateContentRequest called on its own with a system instruction *)
(* and every combination of the generation flags.  The numbers of the two  *)
(* float flags are held in tenths: 7 is 0.7, -10 the default -1.0.         *)

\* the keys json.Marshal writes for a ThinkingConfig, every field of which
\* is a pointer tagged omitempty
jsonThinkingFields(t) ==
  {f \in {"thinkingBudget", "includeThoughts"} :
     \/ f = "thinkingBudget" /\ t.ThinkingBudget # Nil
     \/ f = "includeThoughts" /\ t.IncludeThoughts # Nil}

\* the keys json.Marshal writes for a GenerationConfig, every field of
\* which is tagged omitempty: a pointer is written unless nil, a slice
\* unless empty
jsonGenerationFields(g) ==
  {f \in {"stopSequences", "temperature", "maxOutputTokens", "topP", "topK",
          "responseMimeType", "responseSchema", "thinkingConfig"} :
     \/ f = "stopSequences" /\ Len(g.StopSequences) > 0
     \/ f = "temperature" /\ g.Temperature # Nil
     \/ f = "maxOutputTokens" /\ g.MaxOutputTokens # Nil
     \/ f = "topP" /\ g.TopP # Nil
     \/ f = "topK" /\ g.TopK # Nil
     \/ f = "responseMimeType" /\ g.ResponseMimeType # Nil
     \/ f = "responseSchema" /\ Len(g.ResponseSchema) > 0
     \/ f = "thinkingConfig" /\ g.ThinkingConfig # Nil}

GenConfigInputs ==
  [Temperature : {-10, -5, 0, 7},
   MaxOutputTokens : {-1, 0},
   TopP : {-10, 9},
   TopK : {-1, 40},
   StopSequence : {<<>>, <<"x">>},
   ResponseMimeType : {<<>>, <<"m">>},
   ResponseSchemaFileOrJSON : {<<>>, <<"{", "}">>, <<"@">> \o sSchemaPath,
                               <<"@">> \o sEmptyPath, <<"@", "/", "n", "o", "p", "e">>},
   ThinkingBudget : {-1, 0, 5},
   IncludeThoughts : BOOLEAN]

InitGenCfg ==
  /\ IdleProg
  /\ configFile = NoFile
  /\ fileAtStart = NoFile
  /\ callArgs \in GenConfigInputs
  /\ callRet = <<>>

CallBuildWithGenConfig ==
  /\ callRet = <<>>
  /\ callRet' = <<buildGenerateContentRequest(<<"s">>, <<>>, callArgs, toolsOff, <<>>, <<>>)>>
  /\ UNCHANGED <<progVars, callArgs>>

NextGenCfg ==
  CallBuildWithGenConfig

SpecGenCfg ==
  InitGenCfg /\ [][NextGenCfg]_vars

\* the overrides that are set: a number at or above zero, a string that is
\* not empty, include-thoughts true
SetOverrides(in) ==
  {f \in {"stopSequences", "temperature", "maxOutputTokens", "topP", "topK",
          "responseMimeType", "responseSchema", "thinkingConfig"} :
     \/ f = "stopSequences" /\ in.StopSequence # <<>>
     \/ f = "temperature" /\ in.Temperature >= 0
     \/ f = "maxOutputTokens" /\ in.MaxOutputTokens >= 0
     \/ f = "topP" /\ in.TopP >= 0
     \/ f = "topK" /\ in.TopK >= 0
     \/ f = "responseMimeType" /\ in.ResponseMimeType # <<>>
     \/ f = "responseSchema" /\ in.ResponseSchemaFileOrJSON # <<>>
     \/ f = "thinkingConfig" /\ (in.ThinkingBudget >= 0 \/ in.IncludeThoughts)}

\* the fields of the block other than the response schema hold the values
\* of the flags that are set, and the thinking sub-block its two
ValuesAsSet(in, g) ==
  /\ in.StopSequence # <<>> => g.StopSequences = <<in.StopSequence>>
  /\ in.Temperature >= 0 => g.Temperature = <<in.Temperature>>
  /\ in.MaxOutputTokens >= 0 => g.MaxOutputTokens = <<in.MaxOutputTokens>>
  /\ in.TopP >= 0 => g.TopP = <<in.TopP>>
  /\ in.TopK >= 0 => g.TopK = <<in.TopK>>
  /\ in.ResponseMimeType # <<>> => g.ResponseMimeType = <<in.ResponseMimeType>>
  /\ g.ThinkingConfig # Nil =>
       /\ jsonThinkingFields(g.ThinkingConfig[1])
            = {f \in {"thinkingBudget", "includeThoughts"} :
                 \/ f = "thinkingBudget" /\ in.ThinkingBudget >= 0
                 \/ f = "includeThoughts" /\ in.IncludeThoughts}
       /\ in.ThinkingBudget >= 0 =>
            g.ThinkingConfig[1].ThinkingBudget = <<in.ThinkingBudget>>
       /\ in.IncludeThoughts => g.ThinkingConfig[1].IncludeThoughts = <<TRUE>>

\* the request was built
Built ==
  callRet # <<>> /\ callRet[1].err = NoErr

\* C6 as stated: the generation block of the built request contains exactly
\* the overrides that are set and no other field; the thinking sub-block is
\* there exactly when the thinking budget is set or include-thoughts is
\* true; the whole block is left out exactly when no override is set.
C6_ExactlyTheSetOverrides ==
  Built =>
    LET g == callRet[1].req[1].GenerationConfig
    IN  /\ g = Nil <=> SetOverrides(callArgs) = {}
        /\ g # Nil =>
             /\ jsonGenerationFields(g[1]) = SetOverrides(callArgs)
             /\ ValuesAsSet(callArgs, g[1])

\* C6 as amended: the block is left out exactly when no override is set; it
\* holds every numeric and string override that is set, with its value, and
\* no field of one that is not; the thinking sub-block is there exactly when
\* the thinking budget is set or include-thoughts is true; the response
\* schema field holds the text the flag resolves to, so it is there exactly
\* when that text is not empty: a flag naming an empty file gives a block
\* without the field, and the block is still written.
C6_GenerationConfig ==
  Built =>
    LET g == callRet[1].req[1].GenerationConfig
        schema == IF callArgs.ResponseSchemaFileOrJSON = <<>> THEN <<>>
                  ELSE readFileOrString(callArgs.ResponseSchemaFileOrJSON).s
    IN  /\ g = Nil <=> SetOverrides(callArgs) = {}
        /\ g # Nil =>
             /\ jsonGenerationFields(g[1]) \ {"responseSchema"}
                  = SetOverrides(callArgs) \ {"responseSchema"}
             /\ ValuesAsSet(callArgs, g[1])
             /\ g[1].ResponseSchema = schema
             /\ "responseSchema" \in jsonGenerationFields(g[1]) <=> schema # <<>>

\* temperature 0.7 and top-k 40 with all else unset has given a block with
\* exactly those two fields
C6_Witness ==
  /\ Built
  /\ callArgs = [gcUnset EXCEPT !.Temperature = 7, !.TopK = 40]
  /\ jsonGenerationFields(callRet[1].req[1].GenerationConfig[1]) = {"temperature", "topK"}
  /\ callRet[1].req[1].GenerationConfig[1].Temperature = <<7>>
  /\ callRet[1].req[1].GenerationConfig[1].TopK = <<40>>

-----------------------------------------------------------------------------
(* buildGenerateContentRequest called on its own with a system instruction *)
(* and a safety-settings string of at most MaxSafetyEntries entries joined *)
(* by commas.                                                              *)

MaxSafetyEntries == 3

SafetyEntries ==
  {<<>>, <<" ">>, <<"A", ":", "B">>, <<" ", "A", " ", ":", " ", "B", " ">>, <<"B", ":", "A">>, <<"A", "B">>, <<" ", "A", "B">>, <<":", "B">>, <<"A", ":", " ">>,
   <<":">>, <<"A", ":", "B", ":", "C">>}

RECURSIVE JoinComma(_)
JoinComma(entries) ==
  IF Len(entries) = 0 THEN <<>>
  ELSE IF Len(entries) = 1 THEN entries[1]
  ELSE entries[1] \o <<",">> \o JoinComma(Tail(entries))

SafetyStrings ==
  {JoinComma(es) : es \in SeqsUpTo(SafetyEntries, MaxSafetyEntries)}

InitSafety ==
  /\ IdleProg
  /\ configFile = NoFile
  /\ fileAtStart = NoFile
  /\ callArgs \in SafetyStrings
  /\ callRet = <<>>

CallBuildWithSafety ==
  /\ callRet = <<>>
  /\ callRet' = <<buildGenerateContentRequest(<<"s">>, <<>>, gcUnset, toolsOff, callArgs, <<>>)>>
  /\ UNCHANGED <<progVars, callArgs>>

NextSafety ==
  CallBuildWithSafety

SpecSafety ==
  InitSafety /\ [][NextSafety]_vars

\* the entry is CATEGORY:THRESHOLD, both non-empty once trimmed
WellFormedEntry(e) ==
  /\ IndexOf(TrimSpace(e), ":") # 0
  /\ TrimSpace(SplitN2(TrimSpace(e), ":")[1]) # <<>>
  /\ TrimSpace(SplitN2(TrimSpace(e), ":")[2]) # <<>>

\* the entry is empty once trimmed
BlankEntry(e) ==
  TrimSpace(e) = <<>>

IllFormedEntry(e) ==
  ~WellFormedEntry(e) /\ ~BlankEntry(e)

\* the override of a well-formed entry
OverrideOf(e) ==
  [Category |-> TrimSpace(SplitN2(TrimSpace(e), ":")[1]),
   Threshold |-> TrimSpace(SplitN2(TrimSpace(e), ":")[2])]

OverridesOf(entries) ==
  [i \in 1..Len(entries) |-> OverrideOf(entries[i])]

\* the build has returned an error of the safety settings and no request
SafetyFailure(r) ==
  /\ r.req = Nil
  /\ r.err.kind \in {"invalid safety setting pair", "invalid safety setting format"}

\* C7 as stated: the string is split on commas and each trimmed entry on
\* its first colon; when every entry is well formed the request holds one
\* override per entry, in order, trimmed; if any entry has no colon or an
\* empty category or threshold the build fails with a format error naming
\* that entry and returns no request; the empty string gives no override
\* and no error.
C7_SafetyEveryEntry ==
  callRet # <<>> =>
    LET r == callRet[1]
        entries == Split(callArgs, ",")
    IN  /\ callArgs = <<>> => (r.err = NoErr /\ r.req[1].SafetySettings = <<>>)
        /\ (callArgs # <<>> /\ \A i \in 1..Len(entries) : WellFormedEntry(entries[i])) =>
             /\ r.err = NoErr
             /\ r.req[1].SafetySettings = OverridesOf(entries)
        /\ (callArgs # <<>> /\ \E i \in 1..Len(entries) : ~WellFormedEntry(entries[i])) =>
             /\ SafetyFailure(r)
             /\ \E i \in 1..Len(entries) :
                  ~WellFormedEntry(entries[i]) /\ r.err.arg = entries[i]

\* C7 as amended: an entry that is empty once trimmed is skipped.  When
\* every other entry is well formed the request holds one override per
\* such entry, in order, trimmed; otherwise the build fails with a format
\* error naming, untrimmed, the first entry that is neither blank nor well
\* formed, and returns no request.  The empty string gives no override and
\* no error.
C7_SafetySettings ==
  callRet # <<>> =>
    LET r == callRet[1]
        entries == Split(callArgs, ",")
        ill == {i \in 1..Len(entries) : IllFormedEntry(entries[i])}
    IN  /\ callArgs = <<>> => (r.err = NoErr /\ r.req[1].SafetySettings = <<>>)
        /\ ill = {} =>
             /\ r.err = NoErr
             /\ r.req[1].SafetySettings
                  = OverridesOf(SelectSeq(entries, WellFormedEntry))
        /\ ill # {} =>
             /\ SafetyFailure(r)
             /\ \E i \in ill :
                  /\ \A j \in ill : i <= j
                  /\ r.err.arg = entries[i]
                  /\ r.err.kind = IF IndexOf(TrimSpace(entries[i]), ":") # 0
                                  THEN "invalid safety setting pair"
                                  ELSE "invalid safety setting format"

\* two entries, the second padded with spaces, have given two overrides in
\* order and trimmed; and an entry without a colon would fail alone
C7_Witness ==
  /\ callRet # <<>>
  /\ callArgs = <<"B", ":", "A", ",", " ", "A", " ", ":", " ", "B", " ">>
  /\ callRet[1].err = NoErr
  /\ callRet[1].req[1].SafetySettings
       = <<[Category |-> <<"B">>, Threshold |-> <<"A">>],
           [Category |-> <<"A">>, Threshold |-> <<"B">>]>>
  /\ buildSafetySettings(<<"A", "B">>).err = Err("invalid safety setting format", <<"A", "B">>)

-----------------------------------------------------------------------------
(* makeAPIRequest called on its own, against a server that answers with    *)
(* every status of StatusLines and every body of ApiBodies, or fails.      *)

StatusLines ==
  [code \in {200, 201, 204, 301, 304, 400, 404, 500, 503} |->
     CASE code = 200 -> <<"200 OK">>
       [] code = 201 -> <<"201 Created">>
       [] code = 204 -> <<"204 No Content">>
       [] code = 301 -> <<"301 Moved Permanently">>
       [] code = 304 -> <<"304 Not Modified">>
       [] code = 400 -> <<"400 Bad Request">>
       [] code = 404 -> <<"404 Not Found">>
       [] code = 500 -> <<"500 Internal Server Error">>
       [] OTHER -> <<"503 Service Unavailable">>]

ApiBodies ==
  {<<>>, <<"{", "}">>, sOneModelBody, <<"<", "h", ">">>, <<"{", "e", "}">>}

ApiResponses ==
  {ApiResponse(t, code, StatusLines[code], readOk, body) :
     t \in BOOLEAN, code \in DOMAIN StatusLines, readOk \in BOOLEAN,
     body \in ApiBodies}

ApiCalls ==
  [apiKey : {<<"k">>},
   method : {"GET", "POST"},
   endpointURL : {<<"/", "m", "o", "d", "e", "l", "s">>, <<"/", "m", "\n">>},
   hasTarget : BOOLEAN,
   resp : ApiResponses]

InitAPI ==
  /\ IdleProg
  /\ configFile = NoFile
  /\ fileAtStart = NoFile
  /\ callArgs \in ApiCalls
  /\ callRet = <<>>

CallMakeAPIRequest ==
  /\ callRet = <<>>
  /\ callRet' = <<makeAPIRequest(callArgs.apiKey, callArgs.method, callArgs.endpointURL,
                                 Nil, callArgs.hasTarget, callArgs.resp)>>
  /\ UNCHANGED <<progVars, callArgs>>

NextAPI ==
  CallMakeAPIRequest

SpecAPI ==
  InitAPI /\ [][NextAPI]_vars

\* makeAPIRequest has returned and the server had answered its request with
\* a status outside 200..299
NonSuccessAnswered ==
  /\ callRet # <<>>
  /\ callRet[1].sent # <<>>
  /\ callArgs.resp.transport
  /\ callArgs.resp.StatusCode \notin 200..299

-----------------------------------------------------------------------------
(* The program: the requests to the API.                                   *)

\* the requests of the process that went to the API endpoint
ApiRequests ==
  {i \in 1..Len(netLog) : HasPrefix(netLog[i].url, baseURL)}

\* the process is about to call makeAPIRequest
AtApiCall ==
  pc = "list_call" \/ (pc = "gen_send" /\ jsonMarshalRequestOk(requestPayload[1]))

\* what the call of makeAPIRequest the process is about to make hands to the
\* transport, should the server answer resp
SentByCall(resp) ==
  IF pc = "list_call"
  THEN makeAPIRequest(currentApiKey, "GET", <<"/", "m", "o", "d", "e", "l", "s">>, Nil, TRUE, resp).sent
  ELSE makeAPIRequest(currentApiKey, "POST",
                      <<"/">> \o qualifiedModelName(inv.model) \o <<":generateContent">>,
                      requestPayload, FALSE, resp).sent

\* the process has exited after it called makeAPIRequest
ExitedAfterApiCall ==
  /\ pc = "exit"
  /\ inv.cmd \in {"generate", "list-models"}
  /\ \/ exitCode = 0
     \/ stderr[1].kind \in {"Error making API request", "Error listing models"}

-----------------------------------------------------------------------------
(* handleListModels' loop over the models of a decoded response, called on *)
(* its own with every list of at most MaxModels models whose display name   *)
(* is one of ModelDisplayNames and whose methods are one of ModelMethods.   *)

MaxModels == 2

ModelDisplayNames ==
  {<<>>, <<"G", "e", "m", "i", "n", "i", " ", "2", ".", "5", " ", "P", "r", "o">>, <<"I", "m", "a", "g", "e", "n", " ", "3">>, <<"I", "M", "A", "G", "E", "N">>, <<"M", "y", " ", "I", "m", "a", "g", "e", "n">>, <<"V", "e", "o", " ", "2">>,
   <<"G", "o", "o", "g", "l", "e", " ", "V", "e", "o">>, <<"G", "e", "m", "i", "n", "i", " ", "T", "T", "S">>, <<"T", "e", "x", "t", " ", "E", "m", "b", "e", "d", "d", "i", "n", "g", " ", "4">>}

ModelMethods ==
  {<<>>, <<"generateContent">>, <<"predict">>, <<"predict", "generateContent">>,
   <<"GenerateContent">>}

ListedModels ==
  [Name : {<<"m", "o", "d", "e", "l", "s", "/", "x">>}, DisplayName : ModelDisplayNames,
   SupportedGenerationMethods : ModelMethods]

InitListModels ==
  /\ IdleProg
  /\ configFile = NoFile
  /\ fileAtStart = NoFile
  /\ callArgs \in SeqsUpTo(ListedModels, MaxModels)
  /\ callRet = <<>>

CallProcessModels ==
  /\ callRet = <<>>
  /\ callRet' = <<processModels(callArgs)>>
  /\ UNCHANGED <<progVars, callArgs>>

NextListModels ==
  CallProcessModels

SpecListModels ==
  InitListModels /\ [][NextListModels]_vars

\* generateContent is one of the model's generation methods
HasGenerateContent(m) ==
  \E i \in 1..Len(m.SupportedGenerationMethods) :
    m.SupportedGenerationMethods[i] = "generateContent"

\* the lower-cased display name contains tts or embedding, or starts with
\* imagen or veo
SpecializedName(m) ==
  LET dn == ToLower(m.DisplayName)
  IN  \/ \E i \in 1..(Len(dn) - 2) : SubSeq(dn, i, i + 2) = <<"t", "t", "s">>
      \/ \E i \in 1..(Len(dn) - 8) : SubSeq(dn, i, i + 8) = <<"e", "m", "b", "e", "d", "d", "i", "n", "g">>
      \/ Len(dn) >= 6 /\ SubSeq(dn, 1, 6) = <<"i", "m", "a", "g", "e", "n">>
      \/ Len(dn) >= 3 /\ SubSeq(dn, 1, 3) = <<"v", "e", "o">>

\* C12: handleListModels classifies a model "No" if its generation methods
\* lack generateContent; otherwise "Yes", downgraded to "No (Specialized:
\* Audio/Image/Video/Embedding)" exactly when the lower-cased display name
\* contains tts or embedding or starts with imagen or veo.  The output has
\* one entry per input model, in the same order.
C12_Classification ==
  callRet # <<>> =>
    /\ Len(callRet[1]) = Len(callArgs)
    /\ \A i \in 1..Len(callArgs) :
         /\ callRet[1][i].Name = callArgs[i].Name
         /\ callRet[1][i].DisplayName = callArgs[i].DisplayName
         /\ callRet[1][i].SupportedGenerationMethods
              = callArgs[i].SupportedGenerationMethods
         /\ ~HasGenerateContent(callArgs[i]) =>
              callRet[1][i].SupportedForTextOutput = "No"
         /\ HasGenerateContent(callArgs[i]) =>
              /\ callRet[1][i].SupportedForTextOutput
                   \in {"Yes", "No (Specialized: Audio/Image/Video/Embedding)"}
              /\ callRet[1][i].SupportedForTextOutput = "Yes"
                   <=> ~SpecializedName(callArgs[i])

\* "Imagen 3" then "Google Veo", both with generateContent, have been
\* classified specialized and "Yes", in that order
C12_Witness ==
  /\ callRet # <<>>
  /\ Len(callArgs) = 2
  /\ callArgs[1].DisplayName = <<"I", "m", "a", "g", "e", "n", " ", "3">>
  /\ callArgs[2].DisplayName = <<"G", "o", "o", "g", "l", "e", " ", "V", "e", "o">>
  /\ callArgs[1].SupportedGenerationMethods = <<"predict", "generateContent">>
  /\ callArgs[2].SupportedGenerationMethods = <<"generateContent">>
  /\ callRet[1][1].SupportedForTextOutput
       = "No (Specialized: Audio/Image/Video/Embedding)"
  /\ callRet[1][2].SupportedForTextOutput = "Yes"
  /\ callRet[1][1].DisplayName = <<"I", "m", "a", "g", "e", "n", " ", "3">>

-----------------------------------------------------------------------------
(* processFileArgument called on its own with an http or https URL, against *)
(* a server that answers with every header of FetchHeaders and every body   *)
(* of FetchBodies, or fails.                                                *)

FetchURLs ==
  {<<"h", "t", "t", "p", ":", "/", "/", "h", "/", "a", ".", "p", "n", "g">>, <<"h", "t", "t", "p", ":", "/", "/", "h", "/", "a", ".", "P", "N", "G">>, <<"h", "t", "t", "p", "s", ":", "/", "/", "h", "/", "a", ".", "j", "s", "o", "n">>, <<"h", "t", "t", "p", "s", ":", "/", "/", "h", "/", "a", ".", "m", "p", "4">>,
   <<"h", "t", "t", "p", ":", "/", "/", "h", "/", "a", ".", "t", "x", "t", "?", "x", "=", ".", "p", "n", "g">>, <<"h", "t", "t", "p", "s", ":", "/", "/", "h", "/", "a", ".", "h", "e", "i", "c">>, <<"h", "t", "t", "p", ":", "/", "/", "h", "/", "r", "a", "w">>}

FetchHeaders ==
  {<<>>, sImagePng, <<"t", "e", "x", "t", "/", "h", "t", "m", "l">>, <<"a", "p", "p", "l", "i", "c", "a", "t", "i", "o", "n", "/", "j", "s", "o", "n">>, sOctetStream, <<"b", "i", "n", "a", "r", "y">>}

FetchBodies ==
  {<<>>, PngMagic, <<"h", "i">>, <<"0x00", "0x1A">>}

FetchResponses ==
  {FetchResponse(t, code, IF code = 200 THEN <<"200 OK">> ELSE <<"404 Not Found">>,
                 h, readOk, body) :
     t \in BOOLEAN, code \in {200, 404}, h \in FetchHeaders, readOk \in BOOLEAN,
     body \in FetchBodies}

InitFetch ==
  /\ IdleProg
  /\ configFile = NoFile
  /\ fileAtStart = NoFile
  /\ callArgs \in [arg : FetchURLs, resp : FetchResponses]
  /\ callRet = <<>>

CallProcessFileArgument ==
  /\ callRet = <<>>
  /\ callRet' = <<processFileArgument(callArgs.arg, callArgs.resp)>>
  /\ UNCHANGED <<progVars, callArgs>>

NextFetch ==
  CallProcessFileArgument

SpecFetch ==
  InitFetch /\ [][NextFetch]_vars

\* the file part has been fetched and resolved
Fetched ==
  callRet # <<>> /\ callRet[1].err = NoErr

\* a content-type header that is present and specific
SpecificHeader(h) ==
  h # <<>> /\ h # sOctetStream /\ Contains(h, <<"/">>)

\* the documented precedence: the extension table, then the header, then
\* the sniffed type, then application/octet-stream
DocumentedMime(ext, header, body) ==
  IF LocalExtMime(ext) # <<>> THEN LocalExtMime(ext)
  ELSE IF SpecificHeader(header) THEN header
  ELSE IF DetectContentType(body) # sOctetStream THEN DetectContentType(body)
  ELSE sOctetStream

\* C13: the MIME type of a fetched (http/https) file part follows the
\* documented precedence: (a) the explicit file-extension table (txt, json,
\* jpg/jpeg, png, gif, webp, heic, heif, pdf, mp3, wav, mp4) first; (b)
\* otherwise the server's content-type header if present and specific; (c)
\* otherwise the content-sniffed type; (d) otherwise
\* application/octet-stream.
C13_DocumentedPrecedence ==
  Fetched =>
    callRet[1].mimeType
      = DocumentedMime(ToLower(Ext(URLPath(callArgs.arg))),
                       callArgs.resp.ContentType, callArgs.resp.body)

-----------------------------------------------------------------------------
(* buildGenerateContentRequest called on its own with a system instruction *)
(* and every combination of the tool flags.  The threshold is held in      *)
(* tenths: 3 is 0.3, -10 the default -1.0.                                 *)

ToolsInputs ==
  [EnableURLContext : BOOLEAN,
   EnableGoogleSearch : BOOLEAN,
   EnableGoogleSearchRetrieval : BOOLEAN,
   GoogleSearchRetrievalMode : {<<>>, <<"M", "O", "D", "E", "_", "D", "Y", "N", "A", "M", "I", "C">>, <<"x">>},
   GoogleSearchRetrievalThreshold : {-10, -1, 0, 3, 10}]

InitTools ==
  /\ IdleProg
  /\ configFile = NoFile
  /\ fileAtStart = NoFile
  /\ callArgs \in ToolsInputs
  /\ callRet = <<>>

CallBuildWithTools ==
  /\ callRet = <<>>
  /\ callRet' = <<buildGenerateContentRequest(<<"s">>, <<>>, gcUnset, callArgs, <<>>, <<>>)>>
  /\ UNCHANGED <<progVars, callArgs>>

NextTools ==
  CallBuildWithTools

SpecTools ==
  InitTools /\ [][NextTools]_vars

\* the kinds of tool a descriptor is of: the fields json.Marshal writes for
\* a Tool, every field of which is a pointer tagged omitempty
jsonToolFields(d) ==
  {f \in {"url_context", "google_search", "google_search_retrieval"} :
     \/ f = "url_context" /\ d.URLContext
     \/ f = "google_search" /\ d.GoogleSearch
     \/ f = "google_search_retrieval" /\ d.GoogleSearchRetrieval # Nil}

\* the toggles that are on, in the fixed order
EnabledTools(in) ==
  SelectSeq(<<"url_context", "google_search", "google_search_retrieval">>,
            LAMBDA f : \/ f = "url_context" /\ in.EnableURLContext
                       \/ f = "google_search" /\ in.EnableGoogleSearch
                       \/ f = "google_search_retrieval" /\ in.EnableGoogleSearchRetrieval)

-----------------------------------------------------------------------------
(* buildGenerateContentRequest called on its own with at most MaxParts     *)
(* parsed parts, with and without a system instruction, against a server   *)
(* that answers each fetch with 200 or 404.                                *)

MaxParts == 3

sRemoteB ==
  <<"h", "t", "t", "p", "s", ":", "/", "/", "h", "/", "b">>

PartChoices ==
  {[Type |-> sText, Value |-> <<"h", "i">>],
   [Type |-> sText, Value |-> <<"@", "/", "n", "o", "p", "e">>],
   [Type |-> sFile, Value |-> sLocalPng],
   [Type |-> sFile, Value |-> <<"@", "/", "n", "o", "p", "e">>],
   [Type |-> sFile, Value |-> sRemote],
   [Type |-> sFile, Value |-> sRemoteB]}

PartFetchResponses ==
  {FetchResponse(TRUE, 200, <<"200 OK">>, sImagePng, TRUE, PngMagic),
   FetchResponse(TRUE, 404, <<"404 Not Found">>, <<>>, TRUE, <<>>)}

InitParts ==
  /\ IdleProg
  /\ configFile = NoFile
  /\ fileAtStart = NoFile
  /\ callArgs \in [sys : {<<>>, <<"s">>},
                   parts : SeqsUpTo(PartChoices, MaxParts),
                   resps : [1..MaxParts -> PartFetchResponses]]
  /\ callRet = <<>>

CallBuildWithParts ==
  /\ callRet = <<>>
  /\ callRet' = <<buildGenerateContentRequest(callArgs.sys, callArgs.parts, gcUnset,
                                              toolsOff, <<>>, callArgs.resps)>>
  /\ UNCHANGED <<progVars, callArgs>>

NextParts ==
  CallBuildWithParts

SpecParts ==
  InitParts /\ [][NextParts]_vars

\* part i of the call is a file part whose resolution fails
PartFails(i) ==
  /\ callArgs.parts[i].Type = sFile
  /\ processFileArgument(callArgs.parts[i].Value, callArgs.resps[i]).err # NoErr

\* the fragment part i of the call resolves to: the text verbatim, or the
\* file as inline data
FragmentOf(i) ==
  IF callArgs.parts[i].Type = sText
  THEN [Text |-> <<callArgs.parts[i].Value>>, InlineData |-> <<>>]
  ELSE [Text |-> <<>>,
        InlineData |->
          <<[MIMEType |-> processFileArgument(callArgs.parts[i].Value,
                                              callArgs.resps[i]).mimeType,
             Data |-> processFileArgument(callArgs.parts[i].Value,
                                          callArgs.resps[i]).data]>>]

\* the URLs of the file parts 1..k that are fetched over the network
RemoteUpTo(k) ==
  SelectSeq([i \in 1..k |-> callArgs.parts[i].Value],
            LAMBDA v : HasPrefix(v, sHttp) \/ HasPrefix(v, sHttps))

\* the build of a list with a failing part: it stops at the first one
StopsAtFirstFailure ==
  (\E i \in 1..Len(callArgs.parts) : PartFails(i)) =>
    \E k \in 1..Len(callArgs.parts) :
      /\ PartFails(k)
      /\ \A j \in 1..(k - 1) : ~PartFails(j)
      /\ callRet[1].err = Err("failed to process file argument", callArgs.parts[k].Value)
      /\ callRet[1].req = Nil
      /\ callRet[1].fetched = RemoteUpTo(k)

\* C15 as stated: when every part resolves the built request has exactly
\* one content block whose fragments correspond one-to-one to the parsed
\* parts in input order (text verbatim, files as inline data); when a file
\* part fails the build stops at the first failing part, returns an error
\* naming that part's argument and no request, and resolves no later part.
C15_OneBlockWhenAllResolve ==
  callRet # <<>> =>
    /\ (callRet[1].err = NoErr /\ \A i \in 1..Len(callArgs.parts) : ~PartFails(i)) =>
         /\ Len(callRet[1].req[1].Contents) = 1
         /\ callRet[1].req[1].Contents[1].Parts
              = [i \in 1..Len(callArgs.parts) |-> FragmentOf(i)]
    /\ StopsAtFirstFailure

\* C15 as amended: when there is at least one part and every part resolves
\* the built request has exactly one content block whose fragments
\* correspond one-to-one to the parsed parts in input order (text verbatim,
\* files as inline data); with no part at all the request, built from the
\* system instruction alone, has no content block.  When a file part fails
\* the build stops at the first failing part, returns an error naming that
\* part's argument and no request, and resolves no later part.
C15_PartsInOrder ==
  callRet # <<>> =>
    /\ (\A i \in 1..Len(callArgs.parts) : ~PartFails(i)) =>
         /\ callRet[1].err = NoErr <=> (Len(callArgs.parts) > 0 \/ callArgs.sys # <<>>)
         /\ Len(callArgs.parts) > 0 =>
              /\ Len(callRet[1].req[1].Contents) = 1
              /\ callRet[1].req[1].Contents[1].Parts
                   = [i \in 1..Len(callArgs.parts) |-> FragmentOf(i)]
         /\ (Len(callArgs.parts) = 0 /\ callRet[1].err = NoErr) =>
              callRet[1].req[1].Contents = <<>>
    /\ StopsAtFirstFailure

\* a text, a URL answered 404 and a second URL: the build has failed naming
\* the first URL, with no request, and only the first URL was fetched; and
\* a text followed by a local PNG would give one block of two fragments
C15_Witness ==
  /\ callRet # <<>>
  /\ Len(callArgs.parts) = 3
  /\ callArgs.parts[1] = [Type |-> sText, Value |-> <<"h", "i">>]
  /\ callArgs.parts[2] = [Type |-> sFile, Value |-> sRemote]
  /\ callArgs.parts[3] = [Type |-> sFile, Value |-> sRemoteB]
  /\ callArgs.resps[2].StatusCode = 404
  /\ callArgs.resps[3].StatusCode = 200
  /\ callRet[1].err = Err("failed to process file argument", sRemote)
  /\ callRet[1].req = Nil
  /\ callRet[1].fetched = <<sRemote>>
  /\ buildGenerateContentRequest(<<>>, <<callArgs.parts[1], [Type |-> sFile, Value |-> sLocalPng]>>,
                                 gcUnset, toolsOff, <<>>, callArgs.resps).req[1].Contents
       = <<[Parts |-> <<[Text |-> <<<<"h", "i">>>>, InlineData |-> <<>>],
                        [Text |-> <<>>,
                         InlineData |-> <<[MIMEType |-> sImagePng,
                                           Data |-> EncodeToString(PngMagic)]>>]>>]>>

-----------------------------------------------------------------------------
(* The program: the order of the stages of generate.                       *)

\* what holds of a generate process at each of its stages
StageState ==
  /\ pc \in {"main", "gen_check", "gen_loadkey", "gen_build", "gen_send", "exit"}
  /\ pc = "main" => parsedParts = <<>>
  /\ pc \in {"main", "gen_check", "gen_loadkey"} =>
       (currentApiKey = <<>> /\ requestPayload = Nil /\ netLog = <<>>)
  /\ pc \in {"gen_loadkey", "gen_build", "gen_send"} =>
       /\ parseInputParts(inv.args) = [parts |-> parsedParts, err |-> NoErr]
       /\ Len(parsedParts) > 0 \/ inv.sys # <<>>
  /\ pc = "gen_build" =>
       (currentApiKey # <<>> /\ requestPayload = Nil /\ netLog = <<>>)
  /\ pc = "gen_send" =>
       (currentApiKey # <<>> /\ requestPayload # Nil /\ Posts = {})

\* what holds of the network activity of a generate process
NetworkAfterKey ==
  /\ netLog # <<>> =>
       /\ currentApiKey # <<>>
       /\ parseInputParts(inv.args).err = NoErr
       /\ Len(parsedParts) > 0 \/ inv.sys # <<>>
  /\ Posts # {} =>
       /\ requestPayload # Nil
       /\ Posts = {Len(netLog)}
       /\ netLog[Len(netLog)].body = requestPayload

\* a step of a generate process goes to the next stage or to the exit, and
\* each stage alone does its work
StageStep ==
  /\ pc = "main" => pc' \in {"gen_check", "exit"}
  /\ pc = "gen_check" => pc' \in {"gen_loadkey", "exit"}
  /\ pc = "gen_loadkey" => pc' \in {"gen_build", "exit"}
  /\ pc = "gen_build" => pc' \in {"gen_send", "exit"}
  /\ pc = "gen_send" => pc' = "exit"
  /\ pc = "exit" => pc' = "idle"
  /\ (parsedParts' # parsedParts /\ pc # "exit") => pc = "main"
  /\ (currentApiKey' # currentApiKey /\ pc # "exit") => pc = "gen_loadkey"
  /\ (requestPayload' # requestPayload /\ pc # "exit") => pc = "gen_build"
  /\ (netLog' # netLog /\ pc # "exit") =>
       \/ /\ pc = "gen_build"
          /\ \A i \in 1..Len(netLog') : netLog'[i].method = "GET"
       \/ /\ pc = "gen_send"
          /\ netLog' = Append(netLog, [method |-> "POST",
                                       url |-> netLog'[Len(netLog')].url,
                                       body |-> requestPayload])

\* C16: in a generate invocation the stages run in the order part parsing,
\* empty-request check, API-key load, request build (which resolves the file
\* parts, remote fetches included), API POST.  So there is no network
\* activity of any kind (file fetch or POST) unless the API key was loaded
\* successfully, and the POST happens only after the request was built
\* without error.
C16_StageOrder ==
  /\ [](Generating => (StageState /\ NetworkAfterKey))
  /\ [][Generating => StageStep]_vars

\* generate has exited with code 0 after one fetch and then the POST of the
\* request it built, with the key it loaded
C16_Witness ==
  /\ pc = "exit"
  /\ Generating
  /\ exitCode = 0
  /\ currentApiKey # <<>>
  /\ requestPayload # Nil
  /\ Len(netLog) = 2
  /\ netLog[1] = [method |-> "GET", url |-> sRemote, body |-> Nil]
  /\ netLog[2].method = "POST"
  /\ netLog[2].body = requestPayload

====
